---- MODULE Spec2Model ----
(***************************************************************************)
(* Verification model of refx-pp-rs: the performance builders              *)
(* (osu/src/pp.rs PpCalculator, osu_2019/pp.rs and relax/pp.rs OsuPP) and  *)
(* the osu_2021_november difficulty pass.                                  *)
(*                                                                         *)
(* Conventions.                                                            *)
(*  - Option<T> is a sequence of length <= 1: None = <<>>, Some(x) = <<x>>.*)
(*  - usize arithmetic is modelled modulo 2^UsizeBits.  A build with       *)
(*    overflow checks (debug profile) panics on overflow, a build without  *)
(*    (release profile) wraps; overflow_checks records the profile.        *)
(*  - An accuracy argument is the percentage 100 * j / AccDen.  For a      *)
(*    power-of-two AccDen the f32 products acc * n_objects * 6.0 are exact,*)
(*    so the integer rounding below is the value the f32 code computes.    *)
(*  - An f32 quotient is kept as the pair <<numerator, denominator>>;      *)
(*    <<0, 0>> is NaN.                                                     *)
(***************************************************************************)
EXTENDS Integers, Sequences, FiniteSets, TLC

\* ---------------------------------------------------------------- bounds
MaxObjects == 6
AccDen == 16
MaxCalls == 2
UsizeBits == 16

Modulus == 2 ^ UsizeBits

\* ------------------------------------------------------- Option helpers
None == << >>
Some(x) == << x >>
IsSome(o) == o # None
Unwrap(o) == o[1]
UnwrapOr(o, d) == IF o = None THEN d ELSE o[1]
OptOr(a, b) == IF a # None THEN a ELSE b
GetOrInsert(o, d) == IF o = None THEN Some(d) ELSE o

\* -------------------------------------------------------- usize helpers
Abs(x) == IF x < 0 THEN -x ELSE x
Min(a, b) == IF a < b THEN a ELSE b
Wrap(x) == x % Modulus
SaturatingSub(a, b) == IF a > b THEN a - b ELSE 0
\* f32::round of the non-negative quotient p / q (half away from zero)
\* truncation instead of rounding (`as usize` without `.round()`)
RoundDown(p, q) == p \div q
Round(p, q) == (2 * p + q) \div (2 * q)

\* ---------------------------------------------------------------- mods
NF == 1
EZ == 2
HD == 8
HR == 16
DT == 64
RX == 128
HT == 256
FL == 1024
SO == 4096
AP == 8192
SV2 == 536870912
HasMod(m, bit) == (m \div bit) % 2 = 1

VARIABLES
    calc,             \* which builder type is in use
    overflow_checks,  \* Option<bool>, the build profile once an overflow has shown
                      \* it: TRUE panics on overflow, FALSE wraps
    map_len,          \* map.hit_objects.len()
    attributes,       \* Option<DifficultyAttributes>
    mods,             \* u32
    acc,              \* Option<f32>, Some(<<num, den>>)
    n300, n100, n50,  \* Option<usize>
    n_misses,         \* usize
    passed_objects,   \* Option<usize> (OsuPP only)
    hdr,              \* Option<bool> (osu_2019 OsuPP only)
    status,           \* "building", "done" (calculate returned), "panic"
    result,           \* value returned by calculate
    calls,            \* number of builder calls made so far
    panic_at,         \* "" or the stage that panicked: "accuracy", "hitresults",
                      \* "performance"
    wrapped,          \* history: a usize operation overflowed and wrapped
    explicit,         \* history: the value last given to n300(..), n100(..), n50(..)
    last_op,          \* "new", "set", "accuracy", "calculate"
    before,           \* history: the fields before the last accuracy/calculate
    acc_call,         \* history: the last accuracy call, Some([j, n_misses,
                      \* n_objects, n300, n100, n50]) as they were at the call
    stars_calls       \* history: number of difficulty passes run by calculate

builderVars == << calc, overflow_checks, map_len, attributes, mods, acc, n300, n100,
                  n50, n_misses, passed_objects, hdr, status, result, calls, panic_at,
                  wrapped, explicit, last_op, before, acc_call, stars_calls >>

\* the osu_2021_november difficulty pass
VARIABLES
    version,          \* map.version
    d_mods,           \* the mods given to stars(map, mods)
    stack_threshold,  \* time_preempt * map.stack_leniency
    hit_objects,      \* Vec<OsuObject>
    skills,           \* "none", "empty" (no strain peak) or "processed"
    ratings,          \* aim, speed and flashlight rating
    star_rating,      \* "none", "zero" or "positive"
    pass,             \* position in the pass
    d_panic           \* the panic message once pass = "panic"

diffVars == << version, d_mods, stack_threshold, hit_objects, skills, ratings,
               star_rating, pass, d_panic >>

\* the per-skill performance values of one play as its miss count grows
VARIABLES
    p_calc,           \* the calculator
    p_mods,           \* self.mods
    p_ar,             \* attributes.ar
    p_acc,            \* self.acc, in units of 1 / AccDen
    p_hdr,            \* self.hdr of OsuPP (osu_2019), set
    p_total_hits,     \* total_hits
    p_misses,         \* self.n_misses
    p_values,         \* aim, speed and flashlight value at p_misses
    p_prev            \* Option: the values at p_misses - 1

missVars == << p_calc, p_mods, p_ar, p_acc, p_hdr, p_total_hits, p_misses, p_values,
               p_prev >>

\* Beatmap::check_suspicion
VARIABLES
    s_mode,           \* map.mode
    s_cs,             \* map.cs
    s_objects,        \* map.hit_objects
    s_called,         \* TooSuspicious::new has returned
    s_result,         \* Option<TooSuspicious>, the value returned
    s_state,          \* the SliderState when it returned
    s_scanned         \* the number of objects the mode's loop had visited

suspVars == << s_mode, s_cs, s_objects, s_called, s_result, s_state, s_scanned >>

\* TaikoPP
VARIABLES
    t_max_combo,      \* attrs.max_combo, the map's n_circles too
    t_combo,          \* Option<usize>
    t_acc,            \* Option<f64>, in units of 1 / AccDen
    t_passed_objects, \* Option<usize>
    t_priority,       \* Option<HitResultPriority>
    t_n300,           \* Option<usize>
    t_n100,           \* Option<usize>
    t_n_misses,       \* Option<usize>
    t_state,          \* Option<TaikoScoreState>, what generate_hitresults returned
    t_status          \* "building", "done" or "panic"

taikoVars == << t_max_combo, t_combo, t_acc, t_passed_objects, t_priority, t_n300,
                t_n100, t_n_misses, t_state, t_status >>

\* one strain skill and the loop that feeds it
VARIABLES
    k_driver,           \* "StrainSkill" (osu/skills/traits.rs) or "calculate_skills" (osu_2021_november)
    strain_peaks,       \* finalized section peaks
    curr_section_peak,
    curr_section_end,
    k_pos,              \* "open", "saved" (calculate_skills pushed the last peak), "taken"
    k_objects,          \* the objects handled so far: [time, strain, c]
    k_ends,             \* the section end each finalized peak was saved at
    k_last,             \* the last operation
    k_before,           \* the skill state before the last operation
    k_values            \* what the finalizations since the last object returned

skillVars == << k_driver, strain_peaks, curr_section_peak, curr_section_end, k_pos,
                k_objects, k_ends, k_last, k_before, k_values >>

\* one slider being expanded into its nested objects (OsuObject::new)
VARIABLES
    slider,             \* the slider: start, repeats, dist, velocity, tick_dist
    x_pos,              \* "none", "ticks" (first-span loop and other spans), "done"
    curr_dist,
    ticks,              \* ticks of the first span: [time, dist]
    nested_objects,     \* [time, kind]
    span_idx

sliderVars == << slider, x_pos, curr_dist, ticks, nested_objects, span_idx >>

\* one call of a function of the performance or rating calculators
VARIABLES
    f_name,             \* the function called, "" for none
    f_args,             \* its receiver and arguments, a record
    f_ret               \* Option: what it returned

callVars == << f_name, f_args, f_ret >>

vars == << builderVars, diffVars, missVars, suspVars, taikoVars, skillVars, sliderVars,
          callVars >>

\* the variables a builder step, a step of the difficulty pass, a step of the
\* miss count, the suspicion check and a TaikoPP step leave alone
exceptBuilder == << diffVars, missVars, suspVars, taikoVars, skillVars, sliderVars,
    callVars >>
exceptDiff == << builderVars, missVars, suspVars, taikoVars, skillVars, sliderVars,
    callVars >>
exceptMiss == << builderVars, diffVars, suspVars, taikoVars, skillVars, sliderVars,
    callVars >>
exceptSusp == << builderVars, diffVars, missVars, taikoVars, skillVars, sliderVars,
    callVars >>
exceptTaiko == << builderVars, diffVars, missVars, suspVars, skillVars, sliderVars,
    callVars >>
exceptSkill == << builderVars, diffVars, missVars, suspVars, taikoVars, sliderVars,
    callVars >>
exceptSlider == << builderVars, diffVars, missVars, suspVars, taikoVars, skillVars,
    callVars >>
exceptCall == << builderVars, diffVars, missVars, suspVars, taikoVars, skillVars,
    sliderVars >>

\* no play is being valued
NoPlay ==
    /\ p_calc = ""
    /\ p_mods = 0
    /\ p_ar = 0
    /\ p_acc = 0
    /\ p_hdr = FALSE
    /\ p_total_hits = 0
    /\ p_misses = 0
    /\ p_values = << >>
    /\ p_prev = << >>

\* SliderState::new
SliderState_new == [ repeats_beyond_threshold |-> 0, pos_beyond_threshold |-> 0 ]

\* no chart is being checked
NoChart ==
    /\ s_mode = ""
    /\ s_cs = 0
    /\ s_objects = << >>
    /\ s_called = FALSE
    /\ s_result = << >>
    /\ s_state = SliderState_new
    /\ s_scanned = 0

\* TaikoPP::new on a map of `max_combo` hits
TaikoPP_new(max_combo) ==
    /\ t_max_combo = max_combo
    /\ t_combo = << >>
    /\ t_acc = << >>
    /\ t_passed_objects = << >>
    /\ t_priority = << >>
    /\ t_n300 = << >>
    /\ t_n100 = << >>
    /\ t_n_misses = << >>
    /\ t_state = << >>
    /\ t_status = "building"
\* a TaikoPP on which nothing is called
NoTaiko == TaikoPP_new(0)

\* the state of a strain skill: peaks, current peak, section end
SkillState(peaks, peak, end) == [ strain_peaks |-> peaks, curr_section_peak |-> peak,
                                  curr_section_end |-> end ]

\* a strain skill before its first object, fed by `driver`
StrainSkill_new(driver) ==
    /\ k_driver = driver
    /\ strain_peaks = << >>
    /\ curr_section_peak = 0
    /\ curr_section_end = 0
    /\ k_pos = "open"
    /\ k_objects = << >>
    /\ k_ends = << >>
    /\ k_last = "new"
    /\ k_before = SkillState(<< >>, 0, 0)
    /\ k_values = << >>

\* no skill is being fed
NoSkill == StrainSkill_new("")

\* no slider is being expanded
NoSlider ==
    /\ slider = << >>
    /\ x_pos = "none"
    /\ curr_dist = 0
    /\ ticks = << >>
    /\ nested_objects = << >>
    /\ span_idx = 0

\* no function is being called
NoCall ==
    /\ f_name = ""
    /\ f_args = << >>
    /\ f_ret = << >>

Calcs == { "PpCalculator", "OsuPP2019", "OsuPPRelax" }
IsOsuPP == calc \in { "OsuPP2019", "OsuPPRelax" }

\* A usize value on its way through a computation: the value a build without
\* overflow checks holds (v) and whether an operation so far overflowed (o),
\* which is where a build with overflow checks panics.
U(x) == [ v |-> x, o |-> FALSE ]
Sub(a, b) == [ v |-> Wrap(a.v - b.v), o |-> a.o \/ b.o \/ a.v < b.v ]
Add(a, b) == [ v |-> Wrap(a.v + b.v), o |-> a.o \/ b.o \/ a.v + b.v >= Modulus ]
Mul(a, b) == [ v |-> Wrap(a.v * b.v), o |-> a.o \/ b.o \/ a.v * b.v >= Modulus ]
Div(a, k) == [ v |-> a.v \div k, o |-> a.o ]
Rem(a, k) == [ v |-> a.v % k, o |-> a.o ]
MinU(a, b) == [ v |-> Min(a.v, b.v), o |-> a.o \/ b.o ]
\* a - b - c - d evaluated left to right
Sub3(a, b, c, d) == Sub(Sub(Sub(a, b), c), d)

\* 6 * n300 + 2 * n100 + n50 in usize
Numerator(x300, x100, x50) == Add(Add(Mul(U(6), x300), Mul(U(2), x100)), x50)

\* (acc * n_objects as f32 * 6.0).round() as usize, acc = (100 j / AccDen) / 100
TargetTotal(j, n_objects) == Round(6 * n_objects * j, AccDen)

\* the tail of both `accuracy` functions: store the counts and
\* acc = (6 * n300 + 2 * n100 + n50) as f32 / (6 * n_objects) as f32
StoreCounts(x300, x100, x50, n_objects) ==
    [ n300 |-> x300.v, n100 |-> x100.v, n50 |-> x50.v,
      acc |-> << Numerator(x300, x100, x50).v, 6 * n_objects >>,
      overflow |-> Numerator(x300, x100, x50).o ]

\* ------------------------------------------ osu/src/pp.rs PpCalculator
\* the else-branch of PpCalculator::accuracy once delta is known
PpCalculator_from_delta(delta, n_objects, misses) ==
    StoreCounts(Div(delta, 5), Rem(delta, 5),
                Sub3(U(n_objects), Div(delta, 5), Rem(delta, 5), U(misses)),
                n_objects)

\* PpCalculator::accuracy: the new n300, n100, n50, acc and whether a usize
\* operation overflowed on the way
PpCalculator_accuracy(j, n_objects, o300, o100, o50, misses) ==
    IF OptOr(o100, o50) # None
    THEN StoreCounts(Sub3(U(n_objects), U(UnwrapOr(o100, 0)), U(UnwrapOr(o50, 0)),
                          U(misses)),
                     U(UnwrapOr(o100, 0)), U(UnwrapOr(o50, 0)), n_objects)
    ELSE PpCalculator_from_delta(
             Sub(U(TargetTotal(j, n_objects)), Sub(U(n_objects), U(misses))),
             n_objects, misses)

\* ------------------------------- osu_2019/pp.rs and relax/pp.rs OsuPP
\* n300 -= n; n100 += 5 * n; n50 -= 4 * n
Sacrifice(x300, x100, x50, n, n_objects) ==
    StoreCounts(Sub(x300, n), Add(x100, Mul(U(5), n)), Sub(x50, Mul(U(4), n)), n_objects)

\* the counts stored as they are, without the sacrifice step
NoRedistribute(x300, x100, x50, limit, n_objects) ==
    StoreCounts(x300, x100, x50, n_objects)

\* the sacrifice step with n = n300.min(limit / 5)
RedistributeByFive(x300, x100, x50, limit, n_objects) ==
    Sacrifice(x300, x100, x50, MinU(x300, Div(limit, 5)), n_objects)

\* "Sacrifice n300s to transform n50s into n100s": n = n300.min(limit / 4)
Redistribute(x300, x100, x50, limit, n_objects) ==
    Sacrifice(x300, x100, x50, MinU(x300, Div(limit, 4)), n_objects)

\* the else-branch of OsuPP::accuracy once delta and the clamped misses are known
OsuPP_from_delta(delta, n_objects, misses) ==
    Redistribute(Div(delta, 5), Rem(delta, 5),
                 Sub3(U(n_objects), Div(delta, 5), Rem(delta, 5), U(misses)),
                 Sub3(U(n_objects), Div(delta, 5), Rem(delta, 5), U(misses)),
                 n_objects)

\* the first branch of OsuPP::accuracy once n300 and the raised n50 are known
OsuPP_offload(x300, x100, x50, o100, o50, n_objects) ==
    IF o50 # None /\ o100 = None
    THEN Redistribute(x300, x100, x50, Sub(x50, U(Unwrap(o50))), n_objects)
    ELSE StoreCounts(x300, x100, x50, n_objects)

\* the first branch of OsuPP::accuracy once missing_objects and missing_points are
\* known: n300 = missing_objects.min(missing_points / 6); n50 += missing_objects - n300
OsuPP_place(missing_objects, missing_points, o100, o50, n_objects) ==
    OsuPP_offload(MinU(missing_objects, U(missing_points \div 6)),
                  U(UnwrapOr(o100, 0)),
                  Add(U(UnwrapOr(o50, 0)),
                      Sub(missing_objects,
                          MinU(missing_objects, U(missing_points \div 6)))),
                  o100, o50, n_objects)

OsuPP_accuracy(j, n_objects, o300, o100, o50, misses) ==
    IF OptOr(o100, o50) # None
    THEN OsuPP_place(
             Sub3(U(n_objects), U(UnwrapOr(o100, 0)), U(UnwrapOr(o50, 0)), U(misses)),
             SaturatingSub(Round(6 * j * n_objects, AccDen),
                           2 * UnwrapOr(o100, 0) + UnwrapOr(o50, 0) + misses),
             o100, o50, n_objects)
    ELSE OsuPP_from_delta(
             Sub(U(TargetTotal(j, n_objects)),
                 Sub(U(n_objects), U(Min(misses, n_objects)))),
             n_objects, Min(misses, n_objects))

\* n_objects.saturating_sub(n300).saturating_sub(n100).saturating_sub(n50)
\*          .saturating_sub(n_misses), unset counts read as 0
Remaining(n_objects, o300, o100, o50, misses) ==
    SaturatingSub(SaturatingSub(SaturatingSub(SaturatingSub(n_objects,
        UnwrapOr(o300, 0)), UnwrapOr(o100, 0)), UnwrapOr(o50, 0)), misses)

\* the whole remainder added to n300, whichever tiers are unset
FillIntoN300(remaining, o300, o100, o50) ==
    [ n300 |-> Some(UnwrapOr(o300, 0) + remaining), n100 |-> GetOrInsert(o100, 0),
      n50 |-> GetOrInsert(o50, 0) ]

\* the `if remaining > 0 { .. }` chain shared by all three builders
FillRemaining(remaining, o300, o100, o50) ==
    IF o300 = None
    THEN [ n300 |-> Some(remaining), n100 |-> GetOrInsert(o100, 0),
           n50 |-> GetOrInsert(o50, 0) ]
    ELSE IF o100 = None
    THEN [ n300 |-> o300, n100 |-> Some(remaining), n50 |-> GetOrInsert(o50, 0) ]
    ELSE IF o50 = None
    THEN [ n300 |-> o300, n100 |-> o100, n50 |-> Some(remaining) ]
    ELSE [ n300 |-> Some(Unwrap(o300) + remaining), n100 |-> o100, n50 |-> o50 ]

\* the `if self.acc.is_none() { .. }` block of PpCalculator::calculate: no
\* else-branch, so a count left unset reaches `unwrap()` as None
PpCalculator_hitresults(n_objects, o300, o100, o50, misses) ==
    LET remaining == Remaining(n_objects, o300, o100, o50, misses)
        c == IF remaining > 0
             THEN FillRemaining(remaining, o300, o100, o50)
             ELSE [ n300 |-> o300, n100 |-> o100, n50 |-> o50 ]
        panic == c.n300 = None \/ c.n100 = None \/ c.n50 = None
    IN  [ n300 |-> c.n300, n100 |-> c.n100, n50 |-> c.n50, panic |-> panic,
          acc |-> IF panic THEN None
                  ELSE Some(<< Unwrap(c.n50) + Unwrap(c.n100) * 2 + Unwrap(c.n300) * 6,
                               6 * n_objects >>) ]

\* OsuPP::assert_hitresults (osu_2019 and relax)
assert_hitresults(n_objects, o300, o100, o50, misses) ==
    LET remaining == Remaining(n_objects, o300, o100, o50, misses)
        c == IF remaining > 0
             THEN FillRemaining(remaining, o300, o100, o50)
             ELSE [ n300 |-> GetOrInsert(o300, 0), n100 |-> GetOrInsert(o100, 0),
                    n50 |-> GetOrInsert(o50, 0) ]
    IN  [ n300 |-> c.n300, n100 |-> c.n100, n50 |-> c.n50, panic |-> FALSE,
          acc |-> Some(<< Unwrap(c.n50) + Unwrap(c.n100) * 2 + Unwrap(c.n300) * 6,
                          6 * n_objects >>) ]

\* ------------------------------------------------- difficulty attributes
\* The fields of DifficultyAttributes the performance pass reads here.
\* Attribute values a caller can hand to `attributes(..)`.
SuppliedAttributes ==
    { [ n_circles |-> c, n_spinners |-> 1, max_combo |-> c + 2 ] : c \in 1..2 }

\* The difficulty pass the builders run when no attributes were supplied
\* (no_sliders_no_leniency::stars / osu_2019::stars): a chart of circles only.
stars(len) == [ n_circles |-> len, n_spinners |-> 0, max_combo |-> len ]

\* --------------------------------------------- the rest of `calculate`
\* PpCalculator::total_hits
PpCalculator_total_hits(x300, x100, x50, misses) ==
    Add(Add(Add(U(x300), U(x100)), U(x50)), U(misses))

\* the usize numerator of better_acc_percentage in
\* PpCalculator::compute_accuracy_value:
\* (n300 - (total_hits - n_circles)) * 6 + n100 * 2 + n50
PpCalculator_better_acc_numerator(x300, x100, x50, total_hits, n_circles) ==
    Add(Add(Mul(Sub(U(x300), Sub(total_hits, U(n_circles))), U(6)), Mul(U(x100), U(2))),
        U(x50))

\* OsuPP::total_hits
OsuPP_total_hits(x300, x100, x50, misses, n_objects) ==
    Min(PpCalculator_total_hits(x300, x100, x50, misses).v, n_objects)

\* an f32 quotient <<num, den>> that is NaN (0.0 / 0.0)
IsNaN(q) == q[1] = 0 /\ q[2] = 0

\* `self.passed_objects.unwrap_or(self.map.hit_objects.len())`; PpCalculator has no
\* passed_objects
NObjects == IF IsOsuPP THEN UnwrapOr(passed_objects, map_len) ELSE map_len

\* the difficulty pass run whether or not attributes were supplied
Recomputed(attrs, len) == stars(len)

\* `if self.attributes.is_none() { .. stars(..) .. }`: the attributes
\* `calculate` works with and returns
Difficulty(attrs, len) == IF attrs = None THEN stars(len) ELSE Unwrap(attrs)

\* the finalisation run whether or not an accuracy was set
HitresultsRefilled ==
    IF calc = "PpCalculator"
    THEN PpCalculator_hitresults(NObjects, n300, n100, n50, n_misses)
    ELSE assert_hitresults(NObjects, n300, n100, n50, n_misses)

\* the hit results and accuracy `calculate` goes on with
Hitresults ==
    IF acc # None
    THEN [ n300 |-> n300, n100 |-> n100, n50 |-> n50, acc |-> acc, panic |-> FALSE ]
    ELSE IF calc = "PpCalculator"
    THEN PpCalculator_hitresults(NObjects, n300, n100, n50, n_misses)
    ELSE assert_hitresults(NObjects, n300, n100, n50, n_misses)

\* does the performance stage of `calculate` unwrap a None, given final hit
\* results h
PerformanceUnwrapsNone(h) ==
    CASE calc = "PpCalculator" ->
           \* `self.n300.unwrap()` in compute_accuracy_value
           h.n300 = None
      [] calc = "OsuPP2019" ->
           \* `self.hdr.unwrap()` in compute_cheat_value (and, under HD, in
           \* compute_aim_value); `self.n50.unwrap()` in compute_speed_value
           hdr = None \/ h.n50 = None
      [] calc = "OsuPPRelax" ->
           \* `self.n50.unwrap()` in compute_speed_value
           h.n50 = None

\* does usize arithmetic of the performance stage overflow: total_hits and
\* compute_accuracy_value of PpCalculator (OsuPP computes both in f32)
PerformanceOverflows(h, a) ==
    /\ calc = "PpCalculator"
    /\ PpCalculator_better_acc_numerator(
           UnwrapOr(h.n300, 0), UnwrapOr(h.n100, 0), UnwrapOr(h.n50, 0),
           PpCalculator_total_hits(UnwrapOr(h.n300, 0), UnwrapOr(h.n100, 0),
                                   UnwrapOr(h.n50, 0), n_misses),
           a.n_circles).o

\* ------------------------------------------------------------ the builder
NoExplicit == [ n300 |-> None, n100 |-> None, n50 |-> None ]
NoCounts == [ n300 |-> None, n100 |-> None, n50 |-> None, acc |-> None,
              attributes |-> None, n_misses |-> 0, explicit |-> NoExplicit ]
Snapshot == [ n300 |-> n300, n100 |-> n100, n50 |-> n50, acc |-> acc,
              attributes |-> attributes, n_misses |-> n_misses, explicit |-> explicit ]

\* PpCalculator::new / OsuPP::new
New(c, len) ==
    /\ calc = c
    /\ overflow_checks = None
    /\ map_len = len
    /\ attributes = None
    /\ mods = 0
    /\ acc = None
    /\ n300 = None
    /\ n100 = None
    /\ n50 = None
    /\ n_misses = 0
    /\ passed_objects = None
    /\ hdr = None
    /\ status = "building"
    /\ result = None
    /\ calls = 0
    /\ panic_at = ""
    /\ wrapped = FALSE
    /\ explicit = NoExplicit
    /\ last_op = "new"
    /\ before = NoCounts
    /\ acc_call = None
    /\ stars_calls = 0

\* no difficulty pass is under way
NoRatings == [ aim |-> 0, speed |-> 0, flashlight |-> 0 ]
NoPass ==
    /\ version = 0
    /\ d_mods = 0
    /\ stack_threshold = 0
    /\ hit_objects = << >>
    /\ skills = "none"
    /\ ratings = NoRatings
    /\ star_rating = "none"
    /\ pass = "idle"
    /\ d_panic = ""

\* a builder on which nothing is called
NoBuilder == New("PpCalculator", 0)

Init ==
    /\ \E c \in Calcs, len \in 0..MaxObjects : New(c, len)
    /\ NoPass
    /\ NoPlay
    /\ NoChart
    /\ NoTaiko
    /\ NoSkill
    /\ NoSlider
    /\ NoCall

\* every setter consumes the builder and returns it
Setter ==
    /\ status = "building"
    /\ calls < MaxCalls
    /\ calls' = calls + 1
    /\ last_op' = "set"
    /\ UNCHANGED << calc, overflow_checks, map_len, status, result, panic_at, wrapped,
                    before, acc_call, stars_calls >>
    /\ UNCHANGED exceptBuilder

Attributes(a) ==
    /\ Setter
    /\ attributes' = Some(a)
    /\ UNCHANGED << mods, acc, n300, n100, n50, n_misses, passed_objects, hdr, explicit >>

Mods(m) ==
    /\ Setter
    /\ mods' = m
    /\ UNCHANGED << attributes, acc, n300, n100, n50, n_misses, passed_objects, hdr,
                    explicit >>

N300(v) ==
    /\ Setter
    /\ n300' = Some(v)
    /\ explicit' = [ explicit EXCEPT !.n300 = Some(v) ]
    /\ UNCHANGED << attributes, mods, acc, n100, n50, n_misses, passed_objects, hdr >>

N100(v) ==
    /\ Setter
    /\ n100' = Some(v)
    /\ explicit' = [ explicit EXCEPT !.n100 = Some(v) ]
    /\ UNCHANGED << attributes, mods, acc, n300, n50, n_misses, passed_objects, hdr >>

N50(v) ==
    /\ Setter
    /\ n50' = Some(v)
    /\ explicit' = [ explicit EXCEPT !.n50 = Some(v) ]
    /\ UNCHANGED << attributes, mods, acc, n300, n100, n_misses, passed_objects, hdr >>

Misses(v) ==
    /\ Setter
    /\ n_misses' = v
    /\ UNCHANGED << attributes, mods, acc, n300, n100, n50, passed_objects, hdr, explicit >>

PassedObjects(v) ==
    /\ IsOsuPP
    /\ Setter
    /\ passed_objects' = Some(v)
    /\ UNCHANGED << attributes, mods, acc, n300, n100, n50, n_misses, hdr, explicit >>

Hdr(h) ==
    /\ calc = "OsuPP2019"
    /\ Setter
    /\ hdr' = Some(h)
    /\ UNCHANGED << attributes, mods, acc, n300, n100, n50, n_misses, passed_objects,
                    explicit >>

\* the build profiles an operation can meet: overflow checks are on or off for the
\* whole build, and only an operation that overflows tells which
Build(overflows) ==
    IF ~overflows THEN { FALSE }
    ELSE IF overflow_checks = None THEN BOOLEAN
    ELSE { Unwrap(overflow_checks) }

\* accuracy(acc) with acc = 100 * j / AccDen
Accuracy(j) ==
    /\ status = "building"
    /\ calls < MaxCalls
    /\ calls' = calls + 1
    /\ last_op' = "accuracy"
    /\ before' = Snapshot
    /\ acc_call' = Some([ j |-> j, n_misses |-> n_misses, n_objects |-> NObjects,
                          n300 |-> n300, n100 |-> n100, n50 |-> n50 ])
    /\ LET r == IF calc = "PpCalculator"
                THEN PpCalculator_accuracy(j, NObjects, n300, n100, n50, n_misses)
                ELSE OsuPP_accuracy(j, NObjects, n300, n100, n50, n_misses)
       IN  \E checks \in Build(r.overflow) :
             /\ overflow_checks' = IF r.overflow THEN Some(checks) ELSE overflow_checks
             /\ IF checks /\ r.overflow
                THEN /\ status' = "panic"
                     /\ panic_at' = "accuracy"
                     /\ UNCHANGED << n300, n100, n50, acc, wrapped >>
                ELSE /\ status' = "building"
                     /\ n300' = Some(r.n300)
                     /\ n100' = Some(r.n100)
                     /\ n50' = Some(r.n50)
                     /\ acc' = Some(r.acc)
                     /\ wrapped' = (wrapped \/ r.overflow)
                     /\ UNCHANGED panic_at
    /\ UNCHANGED << calc, map_len, attributes, mods, n_misses,
                    passed_objects, hdr, result, explicit, stars_calls >>
    /\ UNCHANGED exceptBuilder

\* calculate(): difficulty pass unless attributes were supplied, hit-result
\* finalisation unless an accuracy was set, then the performance values
Calculate ==
    /\ status = "building"
    /\ last_op' = "calculate"
    /\ before' = Snapshot
    /\ LET a == Difficulty(attributes, map_len)
           h == Hitresults
       IN  /\ stars_calls' = IF attributes = None THEN stars_calls + 1 ELSE stars_calls
           /\ attributes' = Some(a)
           /\ IF h.panic
              THEN /\ status' = "panic"
                   /\ panic_at' = "hitresults"
                   /\ result' = None
                   /\ UNCHANGED << n300, n100, n50, acc, overflow_checks >>
              ELSE /\ n300' = h.n300
                   /\ n100' = h.n100
                   /\ n50' = h.n50
                   /\ acc' = h.acc
                   /\ \E checks \in Build(PerformanceOverflows(h, a)) :
                        /\ overflow_checks' = IF PerformanceOverflows(h, a)
                                              THEN Some(checks) ELSE overflow_checks
                        /\ IF \/ PerformanceUnwrapsNone(h)
                              \/ checks /\ PerformanceOverflows(h, a)
                           THEN /\ status' = "panic"
                                /\ panic_at' = "performance"
                                /\ result' = None
                           ELSE /\ status' = "done"
                                /\ result' = Some([ difficulty |-> a,
                                                    pp_is_nan |-> IsNaN(Unwrap(h.acc)) ])
                                /\ UNCHANGED panic_at
    /\ UNCHANGED << calc, map_len, mods, n_misses, passed_objects, hdr,
                    calls, wrapped, explicit, acc_call >>
    /\ UNCHANGED exceptBuilder

Next ==
    \/ \E a \in SuppliedAttributes : Attributes(a)
    \/ Mods(HD + DT)
    \/ \E v \in 0..MaxObjects : N300(v)
    \/ \E v \in 0..MaxObjects : N100(v)
    \/ \E v \in 0..MaxObjects : N50(v)
    \/ \E v \in 0..MaxObjects : Misses(v)
    \/ \E v \in 0..MaxObjects : PassedObjects(v)
    \/ \E h \in BOOLEAN : Hdr(h)
    \/ \E j \in 0..AccDen : Accuracy(j)
    \/ Calculate

Spec == Init /\ [][Next]_vars

TypeOK ==
    /\ status \in { "building", "done", "panic" }
    /\ calls \in 0..MaxCalls
    /\ n_misses \in 0..MaxObjects
    /\ (status = "panic") = (panic_at # "")

\* ------------------------------------------------------------------------
\* The osu_2021_november difficulty pass: stars(map, mods)
\* ------------------------------------------------------------------------
\* Positions lie on one axis and Pos::distance is the distance on it; times,
\* positions and stack heights are whole numbers.
STACK_DISTANCE == 3
MaxChart == 3

Dist(a, b) == Abs(a - b)
is_circle(h) == h.kind = "Circle"
is_slider(h) == h.kind = "Slider"
is_spinner(h) == h.kind = "Spinner"
start_pos(h) == h.pos
\* OsuObject::end_time and OsuObject::end_pos
end_time(h) == IF is_circle(h) THEN h.time ELSE h.end_time
end_pos(h) == IF is_slider(h) THEN h.end_pos ELSE h.pos

\* the `loop` of the hit-circle case of stacking, at object i, with the n and
\* obj_i_idx it has reached (indices count from 1, so n = 1 is where
\* n.checked_sub(1) is None); `n < extended_start_idx` never holds, the start
\* index being 0
RECURSIVE stacking_circle(_, _, _, _, _)
stacking_circle(objs, i, n, obj_i_idx, threshold) ==
    IF n = 1 THEN objs
    ELSE IF is_spinner(objs[n - 1])
    THEN stacking_circle(objs, i, n - 1, obj_i_idx, threshold)
    ELSE IF objs[obj_i_idx].time - end_time(objs[n - 1]) > threshold THEN objs
    ELSE IF /\ is_slider(objs[n - 1])
            /\ Dist(end_pos(objs[n - 1]), objs[obj_i_idx].pos) < STACK_DISTANCE
    THEN \* offset = stack_height[obj_i_idx] - stack_height[n] + 1, taken off every
         \* object of n + 1 ..= i that lies at the slider's end
         [ j \in DOMAIN objs |->
             IF j \in n..i /\ Dist(end_pos(objs[n - 1]), objs[j].pos) < STACK_DISTANCE
             THEN [ objs[j] EXCEPT !.stack_height =
                      @ - (objs[obj_i_idx].stack_height - objs[n - 1].stack_height + 1) ]
             ELSE objs[j] ]
    ELSE IF Dist(objs[n - 1].pos, objs[obj_i_idx].pos) < STACK_DISTANCE
    THEN stacking_circle(
             [ objs EXCEPT ![n - 1].stack_height = objs[obj_i_idx].stack_height + 1 ],
             i, n - 1, n - 1, threshold)
    ELSE stacking_circle(objs, i, n - 1, obj_i_idx, threshold)

\* the `loop` of the slider case of stacking
RECURSIVE stacking_slider(_, _, _, _)
stacking_slider(objs, n, obj_i_idx, threshold) ==
    IF n = 1 THEN objs
    ELSE IF is_spinner(objs[n - 1])
    THEN stacking_slider(objs, n - 1, obj_i_idx, threshold)
    ELSE IF objs[obj_i_idx].time - objs[n - 1].time > threshold THEN objs
    ELSE IF Dist(end_pos(objs[n - 1]), objs[obj_i_idx].pos) < STACK_DISTANCE
    THEN stacking_slider(
             [ objs EXCEPT ![n - 1].stack_height = objs[obj_i_idx].stack_height + 1 ],
             n - 1, n - 1, threshold)
    ELSE stacking_slider(objs, n - 1, obj_i_idx, threshold)

\* `for i in (1..=extended_end_idx).rev()`, from object i down to the second
RECURSIVE stacking_from(_, _, _)
stacking_from(objs, i, threshold) ==
    IF i < 2 THEN objs
    ELSE IF Abs(objs[i].stack_height) > 0 \/ is_spinner(objs[i])
    THEN stacking_from(objs, i - 1, threshold)
    ELSE IF is_circle(objs[i])
    THEN stacking_from(stacking_circle(objs, i, i, i, threshold), i - 1, threshold)
    ELSE stacking_from(stacking_slider(objs, i, i, threshold), i - 1, threshold)

\* stacking, on one object or more
stacking(objs, threshold) == stacking_from(objs, Len(objs), threshold)

\* the inner `for j in i + 1..hit_objects.len()` of old_stacking
RECURSIVE old_stacking_inner(_, _, _, _, _, _)
old_stacking_inner(objs, i, j, start_time, slider_stack, threshold) ==
    IF j > Len(objs) THEN objs
    ELSE IF objs[j].time - threshold > start_time THEN objs
    ELSE IF Dist(objs[j].pos, objs[i].pos) < STACK_DISTANCE
    THEN old_stacking_inner([ objs EXCEPT ![i].stack_height = @ + 1 ],
                            i, j + 1, end_time(objs[j]), slider_stack, threshold)
    ELSE IF Dist(objs[j].pos, end_pos(objs[i])) < STACK_DISTANCE
    THEN old_stacking_inner([ objs EXCEPT ![j].stack_height = @ - (slider_stack + 1) ],
                            i, j + 1, end_time(objs[j]), slider_stack + 1, threshold)
    ELSE old_stacking_inner(objs, i, j + 1, start_time, slider_stack, threshold)

\* `for i in 0..hit_objects.len()` of old_stacking, from object i on
RECURSIVE old_stacking_from(_, _, _)
old_stacking_from(objs, i, threshold) ==
    IF i > Len(objs) THEN objs
    ELSE IF objs[i].stack_height # 0 /\ ~is_slider(objs[i])
    THEN old_stacking_from(objs, i + 1, threshold)
    ELSE old_stacking_from(
             old_stacking_inner(objs, i, i + 1, end_time(objs[i]), 0, threshold),
             i + 1, threshold)

old_stacking(objs, threshold) == old_stacking_from(objs, 1, threshold)

\* base * base * base / 100_000.0 with base = 5.0 * (rating / 0.0675).max(1.0) - 4.0,
\* in units of 0.00001, for a rating of u * 0.0675
BasePerformance(u) ==
    (5 * (IF u > 1 THEN u ELSE 1) - 4) * (5 * (IF u > 1 THEN u ELSE 1) - 4)
        * (5 * (IF u > 1 THEN u ELSE 1) - 4)

\* calculate_star_rating, for aim and speed ratings of aim * 0.0675 and
\* speed * 0.0675 and a flashlight rating whose base performance
\* flashlight_rating^2 * 25 is flashlight^2 * 0.00001.  For base performances x, y, z
\* that are whole multiples of 0.00001, base_performance =
\* (x^1.1 + y^1.1 + z^1.1)^(1 / 1.1) is above 0.00001 exactly if their sum is, and
\* on that branch the result 1.12.cbrt() * 0.027 * (.. .cbrt() + 4.0) is positive.
calculate_star_rating(aim, speed, flashlight) ==
    IF BasePerformance(aim) + BasePerformance(speed) + flashlight * flashlight > 1
    THEN "positive"
    ELSE "zero"

\* The charts stars is run on: up to MaxChart objects in time order, the first at
\* time 0, each next one a short or a long gap after the start of the one before.
Kinds == { "Circle", "Slider", "Spinner" }
Positions == { 0, 100 }
Gaps == { 3, 20 }
Thresholds == { 0, 5 }
ObjectSpecs ==
    { s \in [ kind : Kinds, gap : Gaps, pos : Positions, end_pos : Positions ] :
        s.kind = "Slider" \/ s.end_pos = s.pos }
RECURSIVE TimeOf(_, _)
TimeOf(specs, i) == IF i = 1 THEN 0 ELSE TimeOf(specs, i - 1) + specs[i].gap
\* OsuObject::new: stack height 0; a slider or spinner ends 2 after its start
OsuObject(specs, i) ==
    [ kind |-> specs[i].kind,
      time |-> TimeOf(specs, i),
      pos |-> specs[i].pos,
      stack_height |-> 0,
      end_time |-> IF specs[i].kind = "Circle" THEN TimeOf(specs, i)
                   ELSE TimeOf(specs, i) + 2,
      end_pos |-> IF specs[i].kind = "Slider" THEN specs[i].end_pos ELSE specs[i].pos ]

\* stars(map, mods) is entered: the objects are built, nothing is computed yet
InitDiff ==
    /\ NoBuilder
    /\ NoPlay
    /\ NoChart
    /\ NoTaiko
    /\ NoSkill
    /\ NoSlider
    /\ NoCall
    /\ version \in { 5, 6 }
    /\ d_mods \in { 0, RX, FL }
    /\ stack_threshold \in Thresholds
    /\ \E k \in 0..MaxChart : \E specs \in [ 1..k -> ObjectSpecs ] :
           hit_objects = [ i \in 1..k |-> OsuObject(specs, i) ]
    /\ skills = "none"
    /\ ratings = NoRatings
    /\ star_rating = "none"
    /\ pass = "objects"
    /\ d_panic = ""

\* `if map.version >= 6 { stacking(..) }`.  On no object `hit_objects.len() - 1`
\* underflows: a build with overflow checks panics there, a build without goes on
\* to index hit_objects[usize::MAX] and panics there.
Stacking ==
    /\ pass = "objects"
    /\ version >= 6
    /\ IF Len(hit_objects) = 0
       THEN /\ pass' = "panic"
            /\ \E checks \in BOOLEAN :
                 d_panic' = IF checks THEN "attempt to subtract with overflow"
                            ELSE "index out of bounds"
            /\ UNCHANGED hit_objects
       ELSE /\ pass' = "stacked"
            /\ hit_objects' = stacking(hit_objects, stack_threshold)
            /\ UNCHANGED d_panic
    /\ UNCHANGED << version, d_mods, stack_threshold, skills, ratings, star_rating >>
    /\ UNCHANGED exceptDiff

\* `else { old_stacking(..) }`
OldStacking ==
    /\ pass = "objects"
    /\ version < 6
    /\ pass' = "stacked"
    /\ hit_objects' = old_stacking(hit_objects, stack_threshold)
    /\ UNCHANGED << version, d_mods, stack_threshold, skills, ratings, star_rating,
                    d_panic >>
    /\ UNCHANGED exceptDiff

\* the rest of calculate_skills: with fewer than two objects the skills are
\* returned as created, else every object after the first is processed
CalculateSkills ==
    /\ pass = "stacked"
    /\ pass' = "skills"
    /\ skills' = IF Len(hit_objects) < 2 THEN "empty" ELSE "processed"
    /\ UNCHANGED << version, d_mods, stack_threshold, hit_objects, ratings, star_rating,
                    d_panic >>
    /\ UNCHANGED exceptDiff

\* The ratings Skill::difficulty_value(..).sqrt() * DIFFICULTY_MULTIPLIER can give:
\* 0 for a skill with no strain peak; any value for a processed one; no speed
\* skill under RX and no flashlight skill without FL (then `0.0`).
RatingsOf(sk, m) ==
    { [ aim |-> a, speed |-> s, flashlight |-> f ] :
        a \in IF sk = "empty" THEN { 0 } ELSE { 0, 2 },
        s \in IF sk = "empty" \/ HasMod(m, RX) THEN { 0 } ELSE { 0, 2 },
        f \in IF sk = "empty" \/ ~HasMod(m, FL) THEN { 0 } ELSE { 0, 1 } }

\* the rest of stars: the three ratings, then calculate_star_rating
Stars ==
    /\ pass = "skills"
    /\ pass' = "done"
    /\ \E r \in RatingsOf(skills, d_mods) :
         /\ ratings' = r
         /\ star_rating' = calculate_star_rating(r.aim, r.speed, r.flashlight)
    /\ UNCHANGED << version, d_mods, stack_threshold, hit_objects, skills, d_panic >>
    /\ UNCHANGED exceptDiff

NextDiff ==
    \/ Stacking
    \/ OldStacking
    \/ CalculateSkills
    \/ Stars

SpecDiff == InitDiff /\ [][NextDiff]_vars

\* ------------------------------------------------------------------------
\* The difficulty pass: properties
\* ------------------------------------------------------------------------
\* C9: for a chart with 0 objects the difficulty computation completes and yields
\* star rating 0 and aim, speed and flashlight ratings 0.
C9_ZeroObjectsZeroRatings ==
    Len(hit_objects) = 0 =>
        /\ pass # "panic"
        /\ pass = "done" => star_rating = "zero" /\ ratings = NoRatings

\* the same on the charts of format version below 6, which old_stacking handles
C9_ZeroObjectsOldFormat ==
    Len(hit_objects) = 0 /\ version < 6 /\ pass = "done" =>
        star_rating = "zero" /\ ratings = NoRatings

\* ------------------------------------------------------------------------
\* The miss penalty of the per-skill performance values
\* ------------------------------------------------------------------------
\* A per-skill value is rest * penalty: `rest` is the product of every factor
\* that does not read n_misses, kept by its sign, and `penalty` is the factor
\*     post * (coef * (1 - ratio^root)^(arg^growth))^outer
\* kept as the term the code writes, each number a fraction << numerator,
\* denominator >>; `applied` is the guard `n_misses > 0` around it.
MaxHits == 5

Sgn(x) == IF x > 0 THEN 1 ELSE IF x < 0 THEN -1 ELSE 0
RatLeq(a, b) == a[1] * b[2] <= b[1] * a[2]
One == << 1, 1 >>

Penalty(post, coef, ratio, root, arg, growth, outer) ==
    [ applied |-> TRUE, post |-> post, coef |-> coef, ratio |-> ratio, root |-> root,
      arg |-> arg, growth |-> growth, outer |-> outer ]
NoPenalty ==
    [ applied |-> FALSE, post |-> One, coef |-> One, ratio |-> << 0, 1 >>, root |-> One,
      arg |-> << 0, 1 >>, growth |-> One, outer |-> One ]

\* a penalty that reads the share of hits in place of the share of misses
PenaltyOfHits(m, total_hits) ==
    IF m > 0
    THEN Penalty(One, << 97, 100 >>, << total_hits - m, total_hits >>, << 775, 1000 >>,
                 << m, 1 >>, One, One)
    ELSE NoPenalty

\* PpCalculator::compute_aim_value:
\*   0.97 * (1.0 - (n_misses / total_hits).powf(0.775)).powi(n_misses)
PpCalculator_aim_penalty(m, total_hits) ==
    IF m > 0
    THEN Penalty(One, << 97, 100 >>, << m, total_hits >>, << 775, 1000 >>,
                 << m, 1 >>, One, One)
    ELSE NoPenalty

\* PpCalculator::compute_speed_value:
\*   0.97 * (1.0 - (n_misses / total_hits).powf(0.775)).powf(n_misses.powf(0.875))
PpCalculator_speed_penalty(m, total_hits) ==
    IF m > 0
    THEN Penalty(One, << 97, 100 >>, << m, total_hits >>, << 775, 1000 >>,
                 << m, 1 >>, << 875, 1000 >>, One)
    ELSE NoPenalty

\* OsuPP::calculate_miss_penalty (osu_2019 and relax), raised to `outer` and
\* multiplied by `post`:
\*   0.97 * (1.0 - (effective_miss_count / total_hits).powf(0.5))
\*              .powf(1.0 + (effective_miss_count / 1.5))
calculate_miss_penalty(post, outer, m, total_hits) ==
    Penalty(post, << 97, 100 >>, << m, total_hits >>, << 1, 2 >>,
            << 15 + 10 * m, 15 >>, One, outer)

\* OsuPP::compute_aim_value: `aim_value *= miss_penalty * 0.95`
OsuPP_aim_penalty(m, total_hits) ==
    IF m > 0 THEN calculate_miss_penalty(<< 95, 100 >>, One, m, total_hits)
    ELSE NoPenalty

\* OsuPP::compute_speed_value: `calculate_miss_penalty(..).powf(0.863)`
OsuPP_speed_penalty(m, total_hits) ==
    IF m > 0 THEN calculate_miss_penalty(One, << 863, 1000 >>, m, total_hits)
    ELSE NoPenalty

\* OsuPP::compute_flashlight_value (relax):
\*   0.98 * (1.0 - (effective_miss_count / total_hits).powf(0.725))
\*              .powf(effective_miss_count.powf(0.825))
OsuPP_flashlight_penalty(m, total_hits) ==
    IF m > 0
    THEN Penalty(One, << 98, 100 >>, << m, total_hits >>, << 725, 1000 >>,
                 << m, 1 >>, << 825, 1000 >>, One)
    ELSE NoPenalty

\* the sign of the HD bonus: 1.0 + 0.04 * (12.0 - ar) in PpCalculator,
\* 1.0 + 0.06 * (11.0 - ar) for aim and 1.0 + 0.1 * (11.0 - ar) for speed in OsuPP,
\* where osu_2019 applies it under `self.mods.hd() && !self.hdr.unwrap()`
HdBonus(c, skill, m, ar, h) ==
    IF ~HasMod(m, HD) \/ (c = "OsuPP2019" /\ h) THEN 1
    ELSE IF c = "PpCalculator" THEN Sgn(37 - ar)
    ELSE IF skill = "aim" THEN Sgn(83 - 3 * ar)
    ELSE Sgn(21 - ar)

\* the sign of the accuracy factor: 0.5 + acc / 2.0 and 0.35 + acc / 1.9 for aim,
\* acc.powf(..) for speed
AccFactor(skill, a) == IF skill = "aim" THEN Sgn(AccDen + a) ELSE Sgn(a)

AimValue(c, m, ar, a, h, misses, total_hits) ==
    [ rest |-> HdBonus(c, "aim", m, ar, h) * AccFactor("aim", a),
      penalty |-> IF c = "PpCalculator" THEN PpCalculator_aim_penalty(misses, total_hits)
                  ELSE OsuPP_aim_penalty(misses, total_hits) ]

SpeedValue(c, m, ar, a, h, misses, total_hits) ==
    [ rest |-> HdBonus(c, "speed", m, ar, h) * AccFactor("speed", a),
      penalty |-> IF c = "PpCalculator" THEN PpCalculator_speed_penalty(misses, total_hits)
                  ELSE OsuPP_speed_penalty(misses, total_hits) ]

\* PpCalculator has no flashlight value, osu_2019 reports `pp_flashlight: 0.0`,
\* relax returns 0.0 without FL
FlashlightValue(c, m, a, misses, total_hits) ==
    IF c = "PpCalculator" THEN None
    ELSE IF c = "OsuPP2019" \/ ~HasMod(m, FL)
    THEN Some([ rest |-> 0, penalty |-> NoPenalty ])
    ELSE Some([ rest |-> Sgn(6 * AccDen + 10 * a),
                penalty |-> OsuPP_flashlight_penalty(misses, total_hits) ])

Values(c, m, ar, a, h, misses, total_hits) ==
    [ aim |-> AimValue(c, m, ar, a, h, misses, total_hits),
      speed |-> SpeedValue(c, m, ar, a, h, misses, total_hits),
      flashlight |-> FlashlightValue(c, m, a, misses, total_hits) ]

\* a play of `total_hits` hits with no miss yet
InitMiss ==
    /\ NoBuilder
    /\ NoPass
    /\ NoChart
    /\ NoTaiko
    /\ NoSkill
    /\ NoSlider
    /\ NoCall
    /\ p_calc \in Calcs
    /\ p_mods \in { 0, HD, FL, HD + FL }
    /\ p_ar \in { 0, 11 }
    /\ p_acc \in { 0, AccDen }
    /\ p_hdr \in BOOLEAN
    /\ p_total_hits \in 1..MaxHits
    /\ p_misses = 0
    /\ p_values = Values(p_calc, p_mods, p_ar, p_acc, p_hdr, 0, p_total_hits)
    /\ p_prev = None

\* the same play with one more miss, all else as it was
Miss ==
    /\ p_misses < p_total_hits
    /\ p_misses' = p_misses + 1
    /\ p_prev' = Some(p_values)
    /\ p_values' = Values(p_calc, p_mods, p_ar, p_acc, p_hdr, p_misses + 1, p_total_hits)
    /\ UNCHANGED << p_calc, p_mods, p_ar, p_acc, p_hdr, p_total_hits >>
    /\ UNCHANGED exceptMiss

NextMiss == Miss

SpecMiss == InitMiss /\ [][NextMiss]_vars

\* ------------------------------------------------------------------------
\* The miss penalty: properties
\* ------------------------------------------------------------------------
\* x^p <= y^p for fractions 0 <= x <= y and p > 0; 1 - x^p lies in 0..1 for x <= 1
InUnit(r) == r[1] >= 0 /\ r[2] > 0 /\ r[1] <= r[2]
Positive(r) == r[1] > 0 /\ r[2] > 0

\* the penalty is at most 1: post and coef are, and a base in 0..1 to a power
\* that is 0 or more is
AtMostOne(t) ==
    /\ InUnit(t.post) /\ InUnit(t.coef) /\ InUnit(t.ratio)
    /\ Positive(t.root) /\ Positive(t.growth) /\ Positive(t.outer)
    /\ t.arg[1] >= 0 /\ t.arg[2] > 0

\* penalty a <= penalty b: neither applied; or a applied and at most 1 and b
\* not; or both applied with the same post, coef, root, growth and outer, a's
\* base 1 - ratio^root no larger (its ratio no smaller) and a's exponent
\* arg^growth no smaller
PenaltyLeq(a, b) ==
    IF ~b.applied THEN ~a.applied \/ AtMostOne(a)
    ELSE /\ a.applied
         /\ AtMostOne(a) /\ AtMostOne(b)
         /\ a.post = b.post /\ a.coef = b.coef /\ a.root = b.root
         /\ a.growth = b.growth /\ a.outer = b.outer
         /\ RatLeq(b.ratio, a.ratio)
         /\ RatLeq(b.arg, a.arg)

\* value v <= value w for values of the same rest
ValueLeq(v, w) ==
    /\ v.rest = w.rest
    /\ \/ v.rest = 0
       \/ v.rest = 1 /\ PenaltyLeq(v.penalty, w.penalty)
       \/ v.rest = -1 /\ PenaltyLeq(w.penalty, v.penalty)

\* C11: with attributes, mods, accuracy and total hit count fixed, one more miss
\* never yields a larger aim, speed or flashlight value: value(m + 1) <= value(m)
\* for every 0 <= m < total_hits.
C11_MissesNeverRaiseValue ==
    p_prev # None =>
        /\ ValueLeq(p_values.aim, Unwrap(p_prev).aim)
        /\ ValueLeq(p_values.speed, Unwrap(p_prev).speed)
        /\ p_values.flashlight # None =>
               ValueLeq(Unwrap(p_values.flashlight), Unwrap(Unwrap(p_prev).flashlight))

\* two penalised values are compared, of each skill, none of them zero
C11_Witness ==
    /\ p_prev # None
    /\ p_misses >= 2
    /\ p_misses < p_total_hits
    /\ p_values.aim.rest = 1 /\ p_values.aim.penalty.applied
    /\ p_values.speed.rest = 1 /\ Unwrap(p_prev).speed.penalty.applied
    /\ p_values.flashlight # None /\ Unwrap(p_values.flashlight).rest = 1

\* ------------------------------------------------------------------------
\* Beatmap::check_suspicion: TooSuspicious::new
\* ------------------------------------------------------------------------
\* The counts the source compares against stand here at small values, so that a
\* chart of MaxSusp objects can pass each of them: THRESHOLD for 500_000,
\* THRESHOLD_TAIKO for 20_000, THRESHOLD_1S for 200, THRESHOLD_10S for 500 and
\* CUTOFF for 128.  Times, positions and repeat counts are the source's.
MaxSusp == 5
THRESHOLD == 4
THRESHOLD_TAIKO == 3
THRESHOLD_1S == 1
THRESHOLD_10S == 2
CUTOFF == 1
DAY_MS == 60 * 60 * 24 * 1000
POS_THRESHOLD == 10000
REPEATS_THRESHOLD == 1000

Max(a, b) == IF a > b THEN a ELSE b
\* `map.cs as usize` for a circle size of cs / 2: the cast drops the fraction
\* and takes a negative value to 0
AsUsize(cs) == IF cs < 0 THEN 0 ELSE cs \div 2

\* what a check returns: the classification, the SliderState it had reached and
\* the number of objects its loop had visited
Verdict(class, state, scanned) == [ class |-> class, state |-> state, scanned |-> scanned ]

too_long(objs) ==
    IF Len(objs) < 2 THEN FALSE
    ELSE objs[Len(objs)].start_time - objs[1].start_time > DAY_MS

too_many_objects(mode, objs) ==
    IF mode = "Taiko" THEN Len(objs) > THRESHOLD_TAIKO ELSE Len(objs) > THRESHOLD

\* a density check that looks at the 1-second window only
too_dense_1s(objs, i, per_1s, per_10s) ==
    Len(objs) >= i + per_1s /\ objs[i + per_1s].start_time - objs[i].start_time < 1000

\* too_dense; object i here is hit_objects[i - 1] there
too_dense(objs, i, per_1s, per_10s) ==
    \/ /\ Len(objs) >= i + per_1s
       /\ objs[i + per_1s].start_time - objs[i].start_time < 1000
    \/ /\ Len(objs) >= i + per_10s
       /\ objs[i + per_10s].start_time - objs[i].start_time < 10000

check_pos(pos) == Abs(pos.x) > POS_THRESHOLD \/ Abs(pos.y) > POS_THRESHOLD
check_repeats(repeats) == repeats > REPEATS_THRESHOLD

\* a slider check that counts a far slider whatever its repeats
suspicious_slider_pos_first(h, state) ==
    IF h.kind # "Slider" THEN [ is_break |-> FALSE, state |-> state ]
    ELSE IF check_pos(h.pos)
    THEN [ is_break |-> FALSE,
           state |-> [ state EXCEPT !.pos_beyond_threshold = @ + 1 ] ]
    ELSE IF check_repeats(h.repeats)
    THEN [ is_break |-> FALSE,
           state |-> [ state EXCEPT !.repeats_beyond_threshold = @ + 1 ] ]
    ELSE [ is_break |-> FALSE, state |-> state ]

\* suspicious_slider: ControlFlow::Break or Continue, and the state it leaves
suspicious_slider(h, state) ==
    IF h.kind # "Slider" THEN [ is_break |-> FALSE, state |-> state ]
    ELSE IF check_repeats(h.repeats)
    THEN IF check_pos(h.pos) THEN [ is_break |-> TRUE, state |-> state ]
         ELSE [ is_break |-> FALSE,
                state |-> [ state EXCEPT !.repeats_beyond_threshold = @ + 1 ] ]
    ELSE IF check_pos(h.pos)
    THEN [ is_break |-> FALSE,
           state |-> [ state EXCEPT !.pos_beyond_threshold = @ + 1 ] ]
    ELSE [ is_break |-> FALSE, state |-> state ]

\* SliderState::eval
SliderState_eval(state) ==
    IF state.pos_beyond_threshold > CUTOFF THEN Some("SliderPositions")
    ELSE IF state.repeats_beyond_threshold > CUTOFF THEN Some("SliderRepeats")
    ELSE None

\* the loop of check_osu from object i on
RECURSIVE check_osu_from(_, _, _)
check_osu_from(objs, i, state) ==
    IF i > Len(objs) THEN Verdict(SliderState_eval(state), state, Len(objs))
    ELSE IF too_dense(objs, i, THRESHOLD_1S, THRESHOLD_10S)
    THEN Verdict(Some("Density"), state, i)
    ELSE IF suspicious_slider(objs[i], state).is_break
    THEN Verdict(Some("RedFlag"), state, i)
    ELSE check_osu_from(objs, i + 1, suspicious_slider(objs[i], state).state)

check_osu(objs) == check_osu_from(objs, 1, SliderState_new)

\* the loop of check_taiko and check_mania from object i on
RECURSIVE check_density_from(_, _, _, _)
check_density_from(objs, i, per_1s, per_10s) ==
    IF i > Len(objs) THEN Verdict(None, SliderState_new, Len(objs))
    ELSE IF too_dense(objs, i, per_1s, per_10s)
    THEN Verdict(Some("Density"), SliderState_new, i)
    ELSE check_density_from(objs, i + 1, per_1s, per_10s)

check_taiko(objs) == check_density_from(objs, 1, THRESHOLD_1S * 2, THRESHOLD_10S * 2)

check_mania(cs, objs) ==
    check_density_from(objs, 1, THRESHOLD_1S * Max(1, AsUsize(cs) \div 2),
                       THRESHOLD_10S * Max(1, AsUsize(cs) \div 2))

\* the loop of check_catch from object i on
RECURSIVE check_catch_from(_, _, _)
check_catch_from(objs, i, state) ==
    IF i > Len(objs) THEN Verdict(SliderState_eval(state), state, Len(objs))
    ELSE IF suspicious_slider(objs[i], state).is_break
    THEN Verdict(Some("RedFlag"), state, i)
    ELSE check_catch_from(objs, i + 1, suspicious_slider(objs[i], state).state)

check_catch(objs) == check_catch_from(objs, 1, SliderState_new)

check_mode(mode, cs, objs) ==
    IF mode = "Osu" THEN check_osu(objs)
    ELSE IF mode = "Taiko" THEN check_taiko(objs)
    ELSE IF mode = "Catch" THEN check_catch(objs)
    ELSE check_mania(cs, objs)

\* a check that looks at the length before the object count
LengthFirst(mode, cs, objs) ==
    IF too_long(objs) THEN Verdict(Some("Length"), SliderState_new, 0)
    ELSE IF too_many_objects(mode, objs)
    THEN Verdict(Some("ObjectCount"), SliderState_new, 0)
    ELSE check_mode(mode, cs, objs)

TooSuspicious_new(mode, cs, objs) ==
    IF too_many_objects(mode, objs) THEN Verdict(Some("ObjectCount"), SliderState_new, 0)
    ELSE IF too_long(objs) THEN Verdict(Some("Length"), SliderState_new, 0)
    ELSE check_mode(mode, cs, objs)

\* The charts checked: up to MaxSusp objects in time order, the first at time 0,
\* each next one after a gap that is inside the 1-second window, inside the
\* 10-second window only, outside both, or a day long.  A slider has 1000 or
\* 1001 repeats and lies at the edge of the allowed positions or beyond it; the
\* other objects lie beyond it.  Taiko and Mania charts are read for their
\* times only and Catch charts for their objects and their length only; the
\* day-long gap is left to these three modes, whose charts are fewer.
Modes == { "Osu", "Taiko", "Catch", "Mania" }
SuspGaps(mode) ==
    IF mode = "Catch" THEN { 400, DAY_MS }
    ELSE IF mode = "Osu" THEN { 400, 4000, 6000 }
    ELSE { 400, 4000, 6000, DAY_MS }
Near == [ x |-> POS_THRESHOLD, y |-> 0 ]
Far == [ x |-> 0, y |-> 0 - POS_THRESHOLD - 1 ]
Sliders == [ kind : { "Slider" }, repeats : { REPEATS_THRESHOLD, REPEATS_THRESHOLD + 1 },
             pos : { Near, Far } ]
Shapes(mode) ==
    IF mode \in { "Taiko", "Mania" } THEN { [ kind |-> "Circle", repeats |-> 0, pos |-> Far ] }
    ELSE IF mode = "Catch"
    THEN Sliders \cup { [ kind |-> "Spinner", repeats |-> 0, pos |-> Far ] }
    ELSE { sl \in Sliders : check_repeats(sl.repeats) \/ check_pos(sl.pos) }
         \cup { [ kind |-> "Circle", repeats |-> 0, pos |-> Far ] }
HitObjectSpecs(mode) == [ gap : SuspGaps(mode), shape : Shapes(mode) ]
HitObject(specs, i) ==
    [ start_time |-> TimeOf(specs, i), kind |-> specs[i].shape.kind,
      repeats |-> specs[i].shape.repeats, pos |-> specs[i].shape.pos ]
\* circle sizes, in halves: -1.0, 3.5 and 4.5 for Mania
CircleSizes(mode) == IF mode = "Mania" THEN { -2, 7, 9 } ELSE { 8 }

InitSusp ==
    /\ NoBuilder
    /\ NoPass
    /\ NoPlay
    /\ NoTaiko
    /\ NoSkill
    /\ NoSlider
    /\ NoCall
    /\ s_mode \in Modes
    /\ s_cs \in CircleSizes(s_mode)
    /\ \E k \in 0..MaxSusp : \E specs \in [ 1..k -> HitObjectSpecs(s_mode) ] :
           s_objects = [ i \in 1..k |-> HitObject(specs, i) ]
    /\ s_called = FALSE
    /\ s_result = None
    /\ s_state = SliderState_new
    /\ s_scanned = 0

\* Beatmap::check_suspicion
CheckSuspicion ==
    /\ ~s_called
    /\ s_called' = TRUE
    /\ s_result' = TooSuspicious_new(s_mode, s_cs, s_objects).class
    /\ s_state' = TooSuspicious_new(s_mode, s_cs, s_objects).state
    /\ s_scanned' = TooSuspicious_new(s_mode, s_cs, s_objects).scanned
    /\ UNCHANGED << s_mode, s_cs, s_objects >>
    /\ UNCHANGED exceptSusp

NextSusp == CheckSuspicion

SpecSusp == InitSusp /\ [][NextSusp]_vars

\* ------------------------------------------------------------------------
\* The suspicion check: properties
\* ------------------------------------------------------------------------
\* more than 500,000 objects, or more than 20,000 in Taiko mode
ClaimTooMany ==
    Len(s_objects) > (IF s_mode = "Taiko" THEN THRESHOLD_TAIKO ELSE THRESHOLD)
\* last start time minus first start time greater than 86,400,000 ms
ClaimTooLong ==
    /\ Len(s_objects) >= 2
    /\ s_objects[Len(s_objects)].start_time - s_objects[1].start_time > 86400000
ModeSpecific ==
    { Some("Density"), Some("RedFlag"), Some("SliderPositions"), Some("SliderRepeats") }

\* (T1, T10): (200, 500) for osu!, doubled for Taiko, multiplied by
\* max(1, floor(CS / 2)) for Mania; s_cs is twice the circle size
ClaimFactor ==
    IF s_mode = "Taiko" THEN 2
    ELSE IF s_mode = "Mania" THEN (IF s_cs \div 4 > 1 THEN s_cs \div 4 ELSE 1)
    ELSE 1
ClaimDenseAt(i) ==
    \/ /\ i + THRESHOLD_1S * ClaimFactor <= Len(s_objects)
       /\ s_objects[i + THRESHOLD_1S * ClaimFactor].start_time - s_objects[i].start_time
              < 1000
    \/ /\ i + THRESHOLD_10S * ClaimFactor <= Len(s_objects)
       /\ s_objects[i + THRESHOLD_10S * ClaimFactor].start_time - s_objects[i].start_time
              < 10000
ClaimDense == \E i \in 1..Len(s_objects) : ClaimDenseAt(i)

\* C12: the check returns at most one classification, in a fixed order:
\* ObjectCount before Length before every mode-specific classification.
C12_CountThenLengthThenMode ==
    s_called =>
        IF ClaimTooMany THEN s_result = Some("ObjectCount")
        ELSE IF ClaimTooLong THEN s_result = Some("Length")
        ELSE s_result \in ModeSpecific \cup { None }

\* a Taiko chart with too many objects that is also too long and too dense
C12_Witness ==
    /\ s_called
    /\ s_mode = "Taiko"
    /\ ClaimTooMany /\ ClaimTooLong /\ ClaimDense
    /\ s_result = Some("ObjectCount")

\* C13: in osu!, Taiko and Mania a chart that passes the count and length checks
\* is rejected whenever some index is too dense, and Density is never reported
\* when no index is.
C13_DenseChartsRejected ==
    s_called /\ s_mode \in { "Osu", "Taiko", "Mania" } /\ ~ClaimTooMany /\ ~ClaimTooLong =>
        /\ ClaimDense => s_result # None
        /\ ~ClaimDense => s_result # Some("Density")

\* a Mania chart of 4.5 circle size, so of twice the counts, that is too dense,
\* and an osu! chart that is too dense by the 10-second window only
C13_Witness ==
    /\ s_called
    /\ ~ClaimTooMany /\ ~ClaimTooLong
    /\ ClaimDense
    /\ s_result = Some("Density")
    /\ \/ s_mode = "Mania" /\ s_cs = 9
       \/ /\ s_mode = "Osu"
          /\ \A i \in 1..(Len(s_objects) - 1) :
                 s_objects[i + 1].start_time - s_objects[i].start_time >= 1000

\* the sliders the claim counts
ClaimRedFlagAt(i) ==
    /\ s_objects[i].kind = "Slider"
    /\ s_objects[i].repeats > 1000
    /\ (Abs(s_objects[i].pos.x) > 10000 \/ Abs(s_objects[i].pos.y) > 10000)
ClaimOffPlayfield ==
    { i \in 1..Len(s_objects) :
        /\ s_objects[i].kind = "Slider"
        /\ s_objects[i].repeats <= 1000
        /\ (Abs(s_objects[i].pos.x) > 10000 \/ Abs(s_objects[i].pos.y) > 10000) }
ClaimManyRepeats ==
    { i \in 1..Len(s_objects) :
        s_objects[i].kind = "Slider" /\ s_objects[i].repeats > 1000 }
ClaimSliderOutcome ==
    IF \E i \in 1..Len(s_objects) : ClaimRedFlagAt(i) THEN Some("RedFlag")
    ELSE IF Cardinality(ClaimOffPlayfield) > CUTOFF THEN Some("SliderPositions")
    ELSE IF Cardinality(ClaimManyRepeats) > CUTOFF THEN Some("SliderRepeats")
    ELSE None

\* C14 as stated: in osu! and Catch a chart that passes the count and length
\* checks gets RedFlag if a slider has more than 1000 repeats and lies off the
\* playfield, else SliderPositions, else SliderRepeats, else is accepted.
C14_SliderAnomalies ==
    s_called /\ s_mode \in { "Osu", "Catch" } /\ ~ClaimTooMany /\ ~ClaimTooLong =>
        s_result = ClaimSliderOutcome

\* C14, amended: so it is in Catch; in osu! the too-dense test of each object
\* comes before its slider test, so the chart gets Density if an index is too
\* dense and no red-flag slider stands before that index, and else the outcome
\* stated.  When all objects are scanned the two counters hold the sliders of
\* the two kinds, whatever the circles and spinners.
C14_SliderAnomaliesAfterDensity ==
    s_called /\ s_mode \in { "Osu", "Catch" } /\ ~ClaimTooMany /\ ~ClaimTooLong =>
        /\ IF /\ s_mode = "Osu"
              /\ \E i \in 1..Len(s_objects) :
                     ClaimDenseAt(i) /\ \A j \in 1..(i - 1) : ~ClaimRedFlagAt(j)
           THEN s_result = Some("Density")
           ELSE s_result = ClaimSliderOutcome
        /\ s_result \notin { Some("Density"), Some("RedFlag") } =>
               /\ s_scanned = Len(s_objects)
               /\ s_state.pos_beyond_threshold = Cardinality(ClaimOffPlayfield)
               /\ s_state.repeats_beyond_threshold = Cardinality(ClaimManyRepeats)

\* an osu! chart with a red-flag slider at a too-dense index, and one rejected
\* for its slider positions with circles off the playfield among them
C14_Witness ==
    /\ s_called /\ ~ClaimTooMany /\ ~ClaimTooLong
    /\ s_mode = "Osu"
    /\ \/ /\ Len(s_objects) >= 1
          /\ ClaimRedFlagAt(1) /\ ClaimDenseAt(1)
          /\ s_result = Some("Density")
       \/ /\ s_result = Some("SliderPositions")
          /\ \E i \in 1..Len(s_objects) : s_objects[i].kind = "Circle"

\* ------------------------------------------------------------------------
\* TaikoPP: the builder and generate_hitresults
\* ------------------------------------------------------------------------
MaxCombo == 3

\* usize::saturating_sub on checked values
SatSubU(a, b) == [ v |-> SaturatingSub(a.v, b.v), o |-> a.o \/ b.o ]

\* total_result_count
total_result_count(max_combo, passed) ==
    IF passed # None THEN Min(max_combo, Unwrap(passed)) ELSE max_combo

\* total_result_count.saturating_sub(n300 + n100 + n_misses)
Taiko_remaining(total, x300, x100, misses) ==
    SatSubU(U(total), Add(Add(x300, x100), misses))

\* the (None, None) arm under an accuracy, with n300 computed
Taiko_from_target(total, x300, misses) ==
    [ n300 |-> x300, n100 |-> SatSubU(U(total), Add(x300, misses)) ]

\* target_total = (acc * (total_result_count * 2) as f64).round() as usize;
\* n300 = target_total - (total_result_count.saturating_sub(n_misses))
Taiko_from_acc(j, total, misses) ==
    Taiko_from_target(
        total,
        Sub(U(Round(2 * total * j, AccDen)), SatSubU(U(total), misses)),
        misses)

\* `if let Some(acc) = self.acc`; o300 and o100 are self.n300 and self.n100
Taiko_with_acc(j, total, o300, o100, misses, best) ==
    IF o300 # None /\ o100 # None
    THEN IF best
         THEN [ n300 |-> Add(U(Unwrap(o300)),
                             Taiko_remaining(total, U(Unwrap(o300)), U(Unwrap(o100)), misses)),
                n100 |-> U(Unwrap(o100)) ]
         ELSE [ n300 |-> U(Unwrap(o300)),
                n100 |-> Add(U(Unwrap(o100)),
                             Taiko_remaining(total, U(Unwrap(o300)), U(Unwrap(o100)), misses)) ]
    ELSE IF o300 # None
    THEN [ n300 |-> U(Unwrap(o300)),
           n100 |-> Add(U(0), SatSubU(U(total), Add(U(Unwrap(o300)), misses))) ]
    ELSE IF o100 # None
    THEN [ n300 |-> Add(U(0), SatSubU(U(total), Add(U(Unwrap(o100)), misses))),
           n100 |-> U(Unwrap(o100)) ]
    ELSE Taiko_from_acc(j, total, misses)

\* the `else` of it, with remaining computed
Taiko_without_acc(remaining, o300, o100, best) ==
    IF best
    THEN IF o300 # None /\ o100 = None
         THEN [ n300 |-> U(Unwrap(o300)), n100 |-> remaining ]
         ELSE IF o300 # None
         THEN [ n300 |-> Add(U(Unwrap(o300)), remaining), n100 |-> U(Unwrap(o100)) ]
         ELSE [ n300 |-> remaining, n100 |-> U(UnwrapOr(o100, 0)) ]
    ELSE IF o300 = None /\ o100 # None
         THEN [ n300 |-> remaining, n100 |-> U(Unwrap(o100)) ]
         ELSE IF o300 # None /\ o100 # None
         THEN [ n300 |-> U(Unwrap(o300)), n100 |-> Add(U(Unwrap(o100)), remaining) ]
         ELSE [ n300 |-> U(UnwrapOr(o300, 0)), n100 |-> remaining ]

\* TaikoPP::generate_hitresults, the two counts it computes;
\* `priority.unwrap_or_default()` is BestCase
generate_hitresults(total, a, o300, o100, o_misses, priority) ==
    IF a # None
    THEN Taiko_with_acc(Unwrap(a), total, o300, o100, U(UnwrapOr(o_misses, 0)),
                        UnwrapOr(priority, "BestCase") = "BestCase")
    ELSE Taiko_without_acc(
             Taiko_remaining(total, U(UnwrapOr(o300, 0)), U(UnwrapOr(o100, 0)),
                             U(UnwrapOr(o_misses, 0))),
             o300, o100, UnwrapOr(priority, "BestCase") = "BestCase")

\* the accuracies given: 0%, 50%, the last step below 100%, and 100%
TaikoAccs == { 0, AccDen \div 2, AccDen - 1, AccDen }

InitTaiko ==
    /\ NoBuilder
    /\ NoPass
    /\ NoPlay
    /\ NoChart
    /\ NoSkill
    /\ NoSlider
    /\ NoCall
    /\ \E max_combo \in 0..MaxCombo : TaikoPP_new(max_combo)

TaikoSetter ==
    /\ t_status = "building"
    /\ UNCHANGED << t_max_combo, t_state, t_status >>
    /\ UNCHANGED exceptTaiko

T_Combo(v) ==
    /\ TaikoSetter
    /\ t_combo' = Some(v)
    /\ UNCHANGED << t_acc, t_passed_objects, t_priority, t_n300, t_n100, t_n_misses >>

T_HitresultPriority(p) ==
    /\ TaikoSetter
    /\ t_priority' = Some(p)
    /\ UNCHANGED << t_combo, t_acc, t_passed_objects, t_n300, t_n100, t_n_misses >>

T_N300(v) ==
    /\ TaikoSetter
    /\ t_n300' = Some(v)
    /\ UNCHANGED << t_combo, t_acc, t_passed_objects, t_priority, t_n100, t_n_misses >>

T_N100(v) ==
    /\ TaikoSetter
    /\ t_n100' = Some(v)
    /\ UNCHANGED << t_combo, t_acc, t_passed_objects, t_priority, t_n300, t_n_misses >>

\* `Some(n_misses.min(self.map.n_circles as usize))`
T_NMisses(v) ==
    /\ TaikoSetter
    /\ t_n_misses' = Some(Min(v, t_max_combo))
    /\ UNCHANGED << t_combo, t_acc, t_passed_objects, t_priority, t_n300, t_n100 >>

T_Accuracy(j) ==
    /\ TaikoSetter
    /\ t_acc' = Some(j)
    /\ UNCHANGED << t_combo, t_passed_objects, t_priority, t_n300, t_n100, t_n_misses >>

T_PassedObjects(v) ==
    /\ TaikoSetter
    /\ t_passed_objects' = Some(v)
    /\ UNCHANGED << t_combo, t_acc, t_priority, t_n300, t_n100, t_n_misses >>

\* the TaikoScoreState of counts r
TaikoScoreState(r) ==
    [ max_combo |-> IF t_combo = None THEN t_max_combo
                    ELSE Min(Unwrap(t_combo), t_max_combo),
      n300 |-> r.n300.v,
      n100 |-> r.n100.v,
      n_misses |-> UnwrapOr(t_n_misses, 0) ]

GenerateHitresultsOf(r) ==
    \E checks \in Build(r.n300.o \/ r.n100.o) :
        IF checks /\ (r.n300.o \/ r.n100.o)
        THEN t_status' = "panic" /\ t_state' = None
        ELSE t_status' = "done" /\ t_state' = Some(TaikoScoreState(r))

\* TaikoPP::calculate up to the TaikoScoreState it hands to TaikoPpInner
T_Calculate ==
    /\ t_status = "building"
    /\ GenerateHitresultsOf(
           generate_hitresults(total_result_count(t_max_combo, t_passed_objects),
                               t_acc, t_n300, t_n100, t_n_misses, t_priority))
    /\ UNCHANGED << t_max_combo, t_combo, t_acc, t_passed_objects, t_priority, t_n300,
                    t_n100, t_n_misses >>
    /\ UNCHANGED exceptTaiko

NextTaiko ==
    \/ \E v \in 0..MaxCombo : T_Combo(v)
    \/ \E p \in { "BestCase", "WorstCase" } : T_HitresultPriority(p)
    \/ \E v \in 0..MaxCombo : T_N300(v)
    \/ \E v \in 0..MaxCombo : T_N100(v)
    \/ \E v \in 0..(MaxCombo + 1) : T_NMisses(v)
    \/ \E j \in TaikoAccs : T_Accuracy(j)
    \/ \E v \in 0..MaxCombo : T_PassedObjects(v)
    \/ T_Calculate

SpecTaiko == InitTaiko /\ [][NextTaiko]_vars

\* ------------------------------------------------------------------------
\* TaikoPP: properties
\* ------------------------------------------------------------------------
TaikoTotal == total_result_count(t_max_combo, t_passed_objects)
TaikoSupplied == UnwrapOr(t_n300, 0) + UnwrapOr(t_n100, 0) + UnwrapOr(t_n_misses, 0)

\* C15: whenever the supplied n300 + n100 + n_misses does not exceed
\* total_result_count, generate_hitresults returns a state with
\* n300 + n100 + n_misses = total_result_count, on every path.
C15_TaikoCountsSumToTotal ==
    t_status # "building" /\ TaikoSupplied <= TaikoTotal =>
        /\ t_status = "done"
        /\ Unwrap(t_state).n300 + Unwrap(t_state).n100 + Unwrap(t_state).n_misses
               = TaikoTotal

\* the same on every path but the one of an accuracy with neither count supplied
C15_TaikoCountsSumOffAccuracyOnly ==
    /\ t_status # "building" /\ TaikoSupplied <= TaikoTotal
    /\ ~(t_acc # None /\ t_n300 = None /\ t_n100 = None)
    => /\ t_status = "done"
       /\ Unwrap(t_state).n300 + Unwrap(t_state).n100 + Unwrap(t_state).n_misses
              = TaikoTotal

\* ---------------------------------------------------------------------------
\* The strain skill (osu/skills/traits.rs) and the section loop of
\* calculate_skills (osu_2021_november/mod.rs)
\* ---------------------------------------------------------------------------

\* objects fed to one skill
MaxProc == 3

SECTION_LEN == 400
REDUCED_SECTION_COUNT == 10

\* the values strain_value_at takes, the time of the first object, and the
\* time between two objects: none, one section, more than two sections
Strains == 0..2
FirstTimes == { -100, 0, 300 }
SectionGaps == { 0, 400, 900 }

\* f64::ceil of a / b, for b > 0
CeilDiv(a, b) == -((-a) \div b)

\* `(time / section_len).ceil() * section_len`
first_section_end(time) == CeilDiv(time, SECTION_LEN) * SECTION_LEN

reaches(time, end) == time >= end

\* the loop condition `curr.start_time > *self.curr_section_end()`
crosses(time, end) == time > end

\* calculate_initial_strain(time, curr, ..): skill-specific, a function of the
\* time it is evaluated at and of the object (here: of the object's c)
calculate_initial_strain(time, c) == (CeilDiv(time, SECTION_LEN) + c) % 3

\* the skill with the section ends of its finalized peaks
Self == [ strain_peaks |-> strain_peaks, curr_section_peak |-> curr_section_peak,
          curr_section_end |-> curr_section_end, ends |-> k_ends ]

StateOf(st) == SkillState(st.strain_peaks, st.curr_section_peak, st.curr_section_end)

save_curr_peak(st) ==
    [ st EXCEPT !.strain_peaks = Append(@, st.curr_section_peak),
                !.ends = Append(@, st.curr_section_end) ]

start_new_section_from(st, time, c) ==
    [ st EXCEPT !.curr_section_peak = calculate_initial_strain(time, c) ]

next_section(st) == [ st EXCEPT !.curr_section_end = @ + SECTION_LEN ]

start_then_save(st, c, save) ==
    next_section(IF save
                 THEN save_curr_peak(start_new_section_from(st, st.curr_section_end, c))
                 ELSE start_new_section_from(st, st.curr_section_end, c))

\* one turn of the while loop: save the peak (calculate_skills does not for
\* its second object), start the new section from the old end, advance
roll_over_step(st, c, save) ==
    next_section(start_new_section_from(IF save THEN save_curr_peak(st) ELSE st,
                                        st.curr_section_end, c))

RECURSIVE roll_over(_, _, _, _)
roll_over(st, time, c, save) ==
    IF crosses(time, st.curr_section_end)
    THEN roll_over(roll_over_step(st, c, save), time, c, save)
    ELSE st

strain_only(s, peak) == s

\* `strain_value_at(..).max(*self.curr_section_peak())`
strain_max(s, peak) == Max(s, peak)

peak_update(st, s) == [ st EXCEPT !.curr_section_peak = strain_max(s, @) ]

\* the section the first object opens
opened(st, idx, time) ==
    IF idx = 0 THEN [ st EXCEPT !.curr_section_end = first_section_end(time) ] ELSE st

\* StrainSkill::process on the object of index idx
StrainSkill_process(st, idx, time, s, c) ==
    peak_update(roll_over(opened(st, idx, time), time, c, TRUE), s)

\* Skills::process of osu_2021_november
Skills_process(st, s) == peak_update(st, s)

\* calculate_skills on its object of index idx: the first object only opens
\* the section, the second rolls over without saving, the others save
calculate_skills_object(st, idx, time, s, c) ==
    IF idx = 0
    THEN opened(st, idx, time)
    ELSE Skills_process(roll_over(st, time, c, idx >= 2), s)

get_curr_strain_peaks_kept(st) ==
    [ peaks |-> Append(st.strain_peaks, st.curr_section_peak), self |-> st ]

\* get_curr_strain_peaks: the peaks are taken out of the skill
get_curr_strain_peaks(st) ==
    [ peaks |-> Append(st.strain_peaks, st.curr_section_peak),
      self |-> [ st EXCEPT !.strain_peaks = << >>, !.ends = << >> ] ]

IsPositive(peak) == peak > 0

RECURSIVE insert_desc(_, _)
insert_desc(sorted, x) ==
    IF sorted = << >> THEN << x >>
    ELSE IF x >= Head(sorted) THEN << x >> \o sorted
    ELSE << Head(sorted) >> \o insert_desc(Tail(sorted), x)

\* sort_unstable_by(|a, b| b.partial_cmp(a))
RECURSIVE sort_desc(_)
sort_desc(q) == IF q = << >> THEN << >> ELSE insert_desc(sort_desc(Tail(q)), Head(q))

\* lerp(0.75, 1.0, log10(lerp(1.0, 10.0, i / 10))) in percent, i = 0..9
Dampening == << 75, 82, 86, 89, 92, 94, 95, 97, 98, 99 >>

reduced_all(q) ==
    [ i \in 1..Len(q) |-> q[i] * Dampening[Min(i, REDUCED_SECTION_COUNT)] ]

\* the top REDUCED_SECTION_COUNT peaks are reduced; values in percent
reduced(q) ==
    [ i \in 1..Len(q) |-> IF i <= REDUCED_SECTION_COUNT THEN q[i] * Dampening[i]
                          ELSE q[i] * 100 ]

\* DECAY_WEIGHT ^ i in thousandths
RECURSIVE weight(_)
weight(i) == IF i = 0 THEN 1000 ELSE (weight(i - 1) * 9) \div 10

RECURSIVE weighted_sum(_, _)
weighted_sum(q, i) ==
    IF q = << >> THEN 0 ELSE Head(q) * weight(i) + weighted_sum(Tail(q), i + 1)

\* OsuStrainSkill::difficulty_value on the peaks it got: the raw value it
\* stores and the value it returns (times DIFFICULTY_MULTIPLER)
difficulty_value_of(peaks) ==
    [ peaks |-> peaks,
      raw |-> weighted_sum(sort_desc(reduced(sort_desc(SelectSeq(peaks, IsPositive)))), 0),
      value |-> (weighted_sum(sort_desc(reduced(sort_desc(SelectSeq(peaks, IsPositive)))), 0)
                 * 106) \div 100 ]

\* a StrainSkill, or the skills of calculate_skills, before the first object
InitSkill ==
    /\ NoBuilder
    /\ NoPass
    /\ NoPlay
    /\ NoChart
    /\ NoTaiko
    /\ NoSlider
    /\ NoCall
    /\ \E driver \in { "StrainSkill", "calculate_skills" } : StrainSkill_new(driver)

\* the times the next object can have
NextTimes ==
    IF k_objects = << >> THEN FirstTimes
    ELSE { k_objects[Len(k_objects)].time + g : g \in SectionGaps }

\* the skill becomes st after the object (time, s, c)
Fed(st, time, s, c) ==
    /\ strain_peaks' = st.strain_peaks
    /\ curr_section_peak' = st.curr_section_peak
    /\ curr_section_end' = st.curr_section_end
    /\ k_ends' = st.ends
    /\ k_objects' = Append(k_objects, [ time |-> time, strain |-> s, c |-> c ])
    /\ k_before' = StateOf(Self)
    /\ k_values' = << >>
    /\ UNCHANGED << k_driver, k_pos >>
    /\ UNCHANGED exceptSkill

\* StrainSkill::process(curr, diff_objects)
process(time, s, c) ==
    /\ k_driver = "StrainSkill"
    /\ Len(k_objects) < MaxProc
    /\ k_last' = "process"
    /\ Fed(StrainSkill_process(Self, Len(k_objects), time, s, c), time, s, c)

\* calculate_skills: the first object, the second object, one turn of the
\* loop over all other objects
calculate_skills_loop(time, s, c) ==
    /\ k_driver = "calculate_skills"
    /\ k_pos = "open"
    /\ Len(k_objects) < MaxProc
    /\ Len(k_objects) = 0 => s = 0 /\ c = 0
    /\ k_last' = "process"
    /\ Fed(calculate_skills_object(Self, Len(k_objects), time, s, c), time, s, c)

\* the skill becomes st by a step that is not an object
Finalized(st) ==
    /\ strain_peaks' = st.strain_peaks
    /\ curr_section_peak' = st.curr_section_peak
    /\ curr_section_end' = st.curr_section_end
    /\ k_ends' = st.ends
    /\ k_before' = StateOf(Self)
    /\ UNCHANGED << k_driver, k_objects >>
    /\ UNCHANGED exceptSkill

\* calculate_skills: `skills.save_current_peak()` after the last object
save_current_peak ==
    /\ k_driver = "calculate_skills"
    /\ k_pos = "open"
    /\ Len(k_objects) >= 2
    /\ k_last' = "save_current_peak"
    /\ k_pos' = "saved"
    /\ Finalized(save_curr_peak(Self))
    /\ UNCHANGED k_values

\* stars: `mem::take(&mut aim.strain_peaks)` and the difficulty value of the
\* peaks taken
stars_take ==
    /\ k_driver = "calculate_skills"
    /\ k_pos = "saved"
    /\ k_last' = "stars"
    /\ k_pos' = "taken"
    /\ Finalized([ Self EXCEPT !.strain_peaks = << >>, !.ends = << >> ])
    /\ k_values' = Append(k_values, difficulty_value_of(strain_peaks))

\* OsuStrainSkill::difficulty_value(&mut self)
difficulty_value ==
    /\ k_driver = "StrainSkill"
    /\ Len(k_objects) >= 1
    /\ Len(k_values) < 2
    /\ k_last' = "difficulty_value"
    /\ Finalized(get_curr_strain_peaks(Self).self)
    /\ k_values' = Append(k_values, difficulty_value_of(get_curr_strain_peaks(Self).peaks))
    /\ UNCHANGED k_pos

NextSkill ==
    \/ \E time \in NextTimes, s \in Strains, c \in 0..1 : process(time, s, c)
    \/ \E time \in NextTimes, s \in Strains, c \in 0..1 : calculate_skills_loop(time, s, c)
    \/ save_current_peak
    \/ stars_take
    \/ difficulty_value

SpecSkill == InitSkill /\ [][NextSkill]_vars

\* the time of the last object handled
LastTime == k_objects[Len(k_objects)].time

\* C17: once an object has been handled, the current section end is a
\* multiple of the section length and the smallest such multiple that is not
\* below the time of the last object handled
C17_SectionEndIsNextBoundary ==
    k_objects # << >> =>
        /\ curr_section_end % SECTION_LEN = 0
        /\ curr_section_end >= LastTime
        /\ curr_section_end - SECTION_LEN < LastTime

\* an object after the first crossed a boundary and lies on a section end
C17_Witness ==
    /\ Len(k_objects) >= 2
    /\ k_last = "process"
    /\ k_before.curr_section_end < curr_section_end
    /\ LastTime = curr_section_end
    /\ C17_SectionEndIsNextBoundary

\* the last object handled, and the section ends its time lies beyond
LastObject == k_objects[Len(k_objects)]
Crossed ==
    IF LastTime > k_before.curr_section_end
    THEN CeilDiv(LastTime - k_before.curr_section_end, SECTION_LEN)
    ELSE 0

\* the j-th of the boundaries the last object crossed
Boundary(j) == k_before.curr_section_end + (j - 1) * SECTION_LEN

\* what k roll-overs append: the peak that was current, then the initial
\* strain of each section opened and closed on the way
Appended(k) ==
    [ j \in 1..k |-> IF j = 1 THEN k_before.curr_section_peak
                     ELSE calculate_initial_strain(Boundary(j - 1), LastObject.c) ]

\* the boundary moved by k sections and the current peak started from the
\* initial strain at the last boundary crossed
AdvancedBy(k) ==
    /\ curr_section_end = k_before.curr_section_end + k * SECTION_LEN
    /\ curr_section_peak =
           Max(LastObject.strain,
               IF k = 0 THEN k_before.curr_section_peak
               ELSE calculate_initial_strain(Boundary(k), LastObject.c))

\* the last step handled an object after the first
AfterFirst == k_last = "process" /\ Len(k_objects) >= 2

\* the last step handled the second object of calculate_skills
SecondOfLoop == AfterFirst /\ k_driver = "calculate_skills" /\ Len(k_objects) = 2

\* C18: for every object after the first, the second included, the k
\* boundaries it crosses append exactly k peaks: in increasing order of the
\* boundary, the current peak is appended, then the current peak becomes the
\* initial strain at the boundary, then the boundary advances by one section
C18_RollOverAppendsEachPeak ==
    AfterFirst =>
        /\ strain_peaks = k_before.strain_peaks \o Appended(Crossed)
        /\ AdvancedBy(Crossed)

\* C18, amended: as above for every object after the first that
\* StrainSkill::process handles and every object after the second of
\* calculate_skills; the second object of calculate_skills starts the new
\* sections and advances the boundary but appends no peak
C18_RollOverAppendsAfterSecond ==
    /\ AfterFirst /\ ~SecondOfLoop =>
        /\ strain_peaks = k_before.strain_peaks \o Appended(Crossed)
        /\ AdvancedBy(Crossed)
    /\ SecondOfLoop =>
        /\ strain_peaks = k_before.strain_peaks
        /\ AdvancedBy(Crossed)

\* an object crossed three boundaries and three peaks were appended
C18_Witness ==
    /\ AfterFirst
    /\ ~SecondOfLoop
    /\ Crossed = 3
    /\ Len(strain_peaks) = Len(k_before.strain_peaks) + 3
    /\ k_before.curr_section_peak # calculate_initial_strain(Boundary(1), LastObject.c)

\* the objects handled whose time lies in the section that ends at end: after
\* the previous boundary, up to and including end
InSection(end) ==
    { i \in 1..Len(k_objects) :
        /\ k_objects[i].time > end - SECTION_LEN
        /\ k_objects[i].time <= end }

\* the first object beyond the boundary at which the section that ends at end
\* was opened
Opener(end) ==
    CHOOSE i \in 1..Len(k_objects) :
        /\ k_objects[i].time > end - SECTION_LEN
        /\ \A j \in 1..Len(k_objects) : k_objects[j].time > end - SECTION_LEN => i <= j

\* the strain the section that ends at end started with: nothing for the
\* section of the first object, the initial strain at its opening boundary else
InitialOf(end) ==
    IF end = first_section_end(k_objects[1].time) THEN 0
    ELSE calculate_initial_strain(end - SECTION_LEN, k_objects[Opener(end)].c)

MaxOf(S) == CHOOSE x \in S : \A y \in S : y <= x

\* the maximum of the section's initial strain and of the strains of its objects
SectionMax(end) ==
    MaxOf({ InitialOf(end) } \cup { k_objects[i].strain : i \in InSection(end) })

\* C19: the current section peak is the maximum of the section's initial
\* strain and of the strains of the objects handled since it opened, every
\* finalized peak is the same maximum of its own section, and an object whose
\* time is a section's end counts in that section
C19_PeakIsSectionMaximum ==
    k_objects # << >> =>
        /\ curr_section_peak = SectionMax(curr_section_end)
        /\ \A i \in 1..Len(strain_peaks) : strain_peaks[i] = SectionMax(k_ends[i])

\* a finalized peak is the strain of an object lying on its section's end,
\* above the section's initial strain
C19_Witness ==
    /\ k_objects # << >>
    /\ \E i \in 1..Len(strain_peaks) :
         /\ strain_peaks[i] > InitialOf(k_ends[i])
         /\ InSection(k_ends[i]) # { }
         /\ \A o \in InSection(k_ends[i]) : k_objects[o].time = k_ends[i]
    /\ C19_PeakIsSectionMaximum

\* the last step computed a difficulty value
Finalizing == k_last \in { "difficulty_value", "stars" }

\* the finalized peaks the first of two finalizations found
FirstFinalized == SubSeq(k_values[1].peaks, 1, Len(k_values[1].peaks) - 1)

\* C20: computing the difficulty value leaves the finalized peaks, the
\* current section peak and the section end unchanged, so that finalizing the
\* same skill twice returns the same value
C20_FinalizationLeavesState ==
    /\ Finalizing => StateOf(Self) = k_before
    /\ Len(k_values) = 2 => k_values[1].value = k_values[2].value

\* C20, amended: computing the difficulty value leaves the current section
\* peak and the section end unchanged and takes the finalized peaks out of
\* the skill; a second finalization computes from the current section peak
\* alone and returns the value of the first exactly when no finalized peak was
\* above zero
C20_FinalizationTakesPeaks ==
    /\ Finalizing => StateOf(Self) = [ k_before EXCEPT !.strain_peaks = << >> ]
    /\ k_last = "difficulty_value" =>
           k_values[Len(k_values)].peaks =
               Append(k_before.strain_peaks, k_before.curr_section_peak)
    /\ k_last = "stars" => k_values[Len(k_values)].peaks = k_before.strain_peaks
    /\ Len(k_values) = 2 =>
           /\ k_values[2].peaks = << curr_section_peak >>
           /\ k_values[1].value = k_values[2].value
                  <=> \A i \in 1..Len(FirstFinalized) : FirstFinalized[i] <= 0

\* a skill with a finalized peak above zero was finalized twice
C20_Witness ==
    /\ k_last = "difficulty_value"
    /\ Len(k_values) = 2
    /\ \E i \in 1..Len(FirstFinalized) : FirstFinalized[i] > 0
    /\ k_values[1].value > k_values[2].value
    /\ strain_peaks = << >>

\* ---------------------------------------------------------------------------
\* The difficulty value of a skill that holds many peaks
\* ---------------------------------------------------------------------------

\* the longest sequence of finalized peaks, and the length up to which every
\* sequence is tried
MaxPeaks == 11
ShortPeaks == 3

\* finalized peaks: every short sequence, and the long ones made of a run of
\* v followed by a run of w
PeakSeqs ==
    UNION { [ 1..n -> Strains ] : n \in 0..ShortPeaks }
    \cup { [ i \in 1..n |-> IF i <= k THEN v ELSE w ] :
             n \in (MaxPeaks - 1)..MaxPeaks, k \in 0..MaxPeaks, v \in Strains, w \in Strains }

\* a StrainSkill that holds the finalized peaks `peaks` and the current peak
\* `peak` after its objects, the last one at the end of the open section
StrainSkill_holding(peaks, peak) ==
    /\ k_driver = "StrainSkill"
    /\ strain_peaks = peaks
    /\ curr_section_peak = peak
    /\ curr_section_end = Len(peaks) * SECTION_LEN
    /\ k_pos = "open"
    /\ k_objects = << [ time |-> Len(peaks) * SECTION_LEN, strain |-> peak, c |-> 0 ] >>
    /\ k_ends = [ i \in 1..Len(peaks) |-> (i - 1) * SECTION_LEN ]
    /\ k_last = "process"
    /\ k_before = SkillState(peaks, 0, Len(peaks) * SECTION_LEN)
    /\ k_values = << >>

InitPeaks ==
    /\ NoBuilder
    /\ NoPass
    /\ NoPlay
    /\ NoChart
    /\ NoTaiko
    /\ NoSlider
    /\ NoCall
    /\ \E peaks \in PeakSeqs, peak \in Strains : StrainSkill_holding(peaks, peak)

NextPeaks == difficulty_value

SpecPeaks == InitPeaks /\ [][NextPeaks]_vars

\* the i-th largest of the values above zero of q
Ranked(q) ==
    [ i \in 1..Cardinality({ j \in DOMAIN q : q[j] > 0 }) |->
        CHOOSE v \in { q[j] : j \in DOMAIN q } :
            /\ Cardinality({ j \in DOMAIN q : q[j] > v }) < i
            /\ i <= Cardinality({ j \in DOMAIN q : q[j] >= v }) ]

\* the r-th largest peak times lerp(0.75, 1.0, log10(lerp(1, 10, r / 10))) for
\* r < 10, unscaled from rank 10 on (in percent, rank r at index r + 1)
Dampened(q) ==
    [ i \in DOMAIN q |-> IF i - 1 < 10 THEN q[i] * Dampening[i] ELSE q[i] * 100 ]

RECURSIVE DecaySum(_, _)
DecaySum(q, i) ==
    IF i > Len(q) THEN 0 ELSE q[i] * weight(i - 1) + DecaySum(q, i + 1)

\* the peaks the last finalization found: finalized peaks and the open section's
FoundPeaks == Append(k_before.strain_peaks, k_before.curr_section_peak)

\* C21: difficulty_value returns 1.06 times the sum of q(i) * 0.9^i, where the
\* peaks are the finalized peaks and the open section's peak without the
\* non-positive ones, the r-th largest is scaled by the dampening factor of
\* rank r for r < 10 and left unscaled from rank 10 on, and q is the result
\* sorted in descending order again
C21_DifficultyValueIsDecayedSum ==
    k_last = "difficulty_value" =>
        /\ k_values[Len(k_values)].raw = DecaySum(Ranked(Dampened(Ranked(FoundPeaks))), 1)
        /\ k_values[Len(k_values)].value =
               (DecaySum(Ranked(Dampened(Ranked(FoundPeaks))), 1) * 106) \div 100

\* the skill held more than ten peaks above zero, the largest of them from
\* rank 10 on after the scaling
C21_Witness ==
    /\ k_last = "difficulty_value"
    /\ Len(Ranked(FoundPeaks)) > 10
    /\ Ranked(Dampened(Ranked(FoundPeaks))) # Dampened(Ranked(FoundPeaks))
    /\ k_values[Len(k_values)].value > 0

\* ---------------------------------------------------------------------------
\* Slider expansion (osu_2021_november/osu_object.rs, OsuObject::new)
\* ---------------------------------------------------------------------------

\* ticks pushed by the first-span loop, and repeats of a slider
MaxTicks == 8
MaxRepeats == 2

LEGACY_LAST_TICK_OFFSET == 36

\* sliders: curve length, velocity (length per time unit, above zero), and the
\* tick distance before it is clamped (0 or below for a tick rate that is
\* infinite or below zero)
SliderSpecs ==
    [ start : { 0 }, repeats : 0..MaxRepeats, dist : { 0, 40, 100 }, velocity : { 1, 2 },
      tick_dist : { -10, 0, 10, 30, 200 } ]

\* `duration / span_count` with duration = span_count * curve.dist() / velocity
span_duration(h) == h.dist \div h.velocity

slider_duration(h) == (h.repeats + 1) * span_duration(h)

\* `curve.dist().min(max_len)`
slider_len(h) == Min(h.dist, 100000)

\* `tick_dist.clamp(0.0, len)`
clamped_tick_dist(h) == Max(0, Min(h.tick_dist, slider_len(h)))

min_dist_from_end(h) == h.velocity * 10

\* the loop condition `curr_dist < len - min_dist_from_end`
in_first_span(h, dist) == dist < slider_len(h) - min_dist_from_end(h)

\* `h.start_time + progress * span_duration` with progress = curr_dist / len
tick_time(h, dist) == h.start + (dist * span_duration(h)) \div slider_len(h)

\* the repeat point of span k and the ticks of that span: the times of the
\* first span's ticks moved by k span durations, for reversed spans too
span_objects(h, k, first_ticks) ==
    << [ time |-> h.start + span_duration(h) * k, kind |-> "Repeat" ] >>
    \o [ i \in 1..Len(first_ticks) |->
           [ time |-> k * span_duration(h) + first_ticks[i].time, kind |-> "Tick" ] ]

final_span_end_legacy(h) ==
    h.start + h.repeats * span_duration(h) + span_duration(h) - LEGACY_LAST_TICK_OFFSET

\* the time of the legacy last tick
final_span_end_time(h) ==
    Max(h.start + slider_duration(h) \div 2,
        h.start + h.repeats * span_duration(h) + span_duration(h) - LEGACY_LAST_TICK_OFFSET)

never_later(q, time) == FALSE

\* `Some(last) if last.time > final_span_end_time`
last_is_later(q, time) == q # << >> /\ q[Len(q)].time > time

\* what binary_search_by can return on the time-ordered q: the index of an
\* element of that time if there is one, else the number of earlier elements
insertion_points(q, time) ==
    IF \E i \in 1..Len(q) : q[i].time = time
    THEN { i - 1 : i \in { j \in 1..Len(q) : q[j].time = time } }
    ELSE { Cardinality({ j \in 1..Len(q) : q[j].time < time }) }

\* Vec::insert(idx, x)
insert_at(q, idx, x) == SubSeq(q, 1, idx) \o << x >> \o SubSeq(q, idx + 1, Len(q))

\* OsuObject::new on a slider, up to the first-span loop
InitSlider ==
    /\ NoBuilder
    /\ NoPass
    /\ NoPlay
    /\ NoChart
    /\ NoTaiko
    /\ NoSkill
    /\ NoCall
    /\ slider \in SliderSpecs
    /\ x_pos = "ticks"
    /\ curr_dist = clamped_tick_dist(slider)
    /\ ticks = << >>
    /\ nested_objects = << >>
    /\ span_idx = 1

\* one iteration of the first-span loop
FirstSpanTick ==
    /\ x_pos = "ticks"
    /\ span_idx = 1
    /\ in_first_span(slider, curr_dist)
    /\ Len(ticks) < MaxTicks
    /\ nested_objects' = Append(nested_objects,
                                [ time |-> tick_time(slider, curr_dist), kind |-> "Tick" ])
    /\ ticks' = Append(ticks, [ time |-> tick_time(slider, curr_dist), dist |-> curr_dist ])
    /\ curr_dist' = curr_dist + clamped_tick_dist(slider)
    /\ UNCHANGED << slider, x_pos, span_idx >>
    /\ UNCHANGED exceptSlider

\* one iteration of `for span_idx in 1..=*repeats`
OtherSpan ==
    /\ x_pos = "ticks"
    /\ ~in_first_span(slider, curr_dist)
    /\ span_idx <= slider.repeats
    /\ nested_objects' = nested_objects \o span_objects(slider, span_idx, ticks)
    /\ span_idx' = span_idx + 1
    /\ UNCHANGED << slider, x_pos, curr_dist, ticks >>
    /\ UNCHANGED exceptSlider

\* the slider tail: appended, or inserted when the last object is later
SliderTail ==
    /\ x_pos = "ticks"
    /\ ~in_first_span(slider, curr_dist)
    /\ span_idx > slider.repeats
    /\ x_pos' = "done"
    /\ IF last_is_later(nested_objects, final_span_end_time(slider))
       THEN \E idx \in insertion_points(nested_objects, final_span_end_time(slider)) :
              nested_objects' =
                  insert_at(nested_objects, idx,
                            [ time |-> final_span_end_time(slider), kind |-> "Tail" ])
       ELSE nested_objects' =
                Append(nested_objects,
                       [ time |-> final_span_end_time(slider), kind |-> "Tail" ])
    /\ UNCHANGED << slider, curr_dist, ticks, span_idx >>
    /\ UNCHANGED exceptSlider

NextSlider ==
    \/ FirstSpanTick
    \/ OtherSpan
    \/ SliderTail

SpecSlider == InitSlider /\ [][NextSlider]_vars

\* C22: the nested objects of a slider are in non-decreasing order of time
\* while it is expanded and after the tail has been appended or inserted
C22_NestedObjectsTimeOrdered ==
    \A i \in 1..Len(nested_objects) : \A j \in i..Len(nested_objects) :
        nested_objects[i].time <= nested_objects[j].time

\* a slider with repeats and ticks whose tail was inserted before later ticks
C22_Witness ==
    /\ x_pos = "done"
    /\ slider.repeats >= 1
    /\ ticks # << >>
    /\ nested_objects[Len(nested_objects)].kind = "Tick"
    /\ \E i \in 1..Len(nested_objects) - 1 :
         /\ nested_objects[i].kind = "Tail"
         /\ nested_objects[i].time < nested_objects[Len(nested_objects)].time

\* the tails among the nested objects
Tails == { i \in 1..Len(nested_objects) : nested_objects[i].kind = "Tail" }

\* C23: an expanded slider holds exactly one tail, at the later of start plus
\* half the duration and start plus the duration minus 36, the duration being
\* that of all spans
C23_OneTailAtLegacyTime ==
    x_pos = "done" =>
        /\ Cardinality(Tails) = 1
        /\ LET duration == (slider.repeats + 1) * (slider.dist \div slider.velocity)
           IN  \A i \in Tails :
                 nested_objects[i].time =
                     Max(slider.start + duration \div 2, slider.start + duration - 36)

\* a slider with repeats whose tail lies 36 before its end, later than half
\* its duration
C23_Witness ==
    /\ x_pos = "done"
    /\ slider.repeats >= 1
    /\ Cardinality(Tails) = 1
    /\ \E i \in Tails :
         /\ nested_objects[i].time = slider.start + slider_duration(slider) - 36
         /\ nested_objects[i].time > slider.start + slider_duration(slider) \div 2

SliderThenCircles(a) ==
    /\ a < Len(hit_objects)
    /\ is_slider(hit_objects[a])
    /\ \A j \in (a + 1)..Len(hit_objects) :
         /\ is_circle(hit_objects[j])
         /\ hit_objects[j].pos = hit_objects[a].end_pos
         /\ hit_objects[j].time - end_time(hit_objects[j - 1]) <= stack_threshold

C26_SpinnersNotStacked ==
    pass = "stacked" /\ version >= 6 =>
        \A i \in 1..Len(hit_objects) :
            is_spinner(hit_objects[i]) => hit_objects[i].stack_height = 0

\* ---------------------------------------------------------------------------
\* The aggregate pp of PpCalculator, OsuPP (relax) and TaikoPpInner
\* ---------------------------------------------------------------------------

\* f32 and f64 values are quotients << numerator, denominator >> of integers
\* with a positive denominator, kept in lowest terms
RECURSIVE Gcd(_, _)
Gcd(a, b) == IF b = 0 THEN a ELSE Gcd(b, a % b)
Reduce(q) == << q[1] \div Gcd(q[1], q[2]), q[2] \div Gcd(q[1], q[2]) >>
Rat(n) == << n, 1 >>
Lcm(a, b) == (a \div Gcd(a, b)) * b
RatMul(a, b) ==
    Reduce(<< (a[1] \div Gcd(a[1], b[2])) * (b[1] \div Gcd(b[1], a[2])),
              (a[2] \div Gcd(b[1], a[2])) * (b[2] \div Gcd(a[1], b[2])) >>)
RatAdd(a, b) ==
    Reduce(<< a[1] * (Lcm(a[2], b[2]) \div a[2]) + b[1] * (Lcm(a[2], b[2]) \div b[2]),
              Lcm(a[2], b[2]) >>)
RatSub(a, b) == RatAdd(a, << -b[1], b[2] >>)
RatDiv(a, b) == RatMul(a, << Sgn(b[1]) * b[2], Abs(b[1]) >>)
RatEq(a, b) == Reduce(a) = Reduce(b)
RatLt(a, b) == a[1] * b[2] < b[1] * a[2]
RatMin(a, b) == IF RatLeq(a, b) THEN a ELSE b
RatMax(a, b) == IF RatLeq(a, b) THEN b ELSE a

Sq(x) == x * x
RECURSIVE powi(_, _)
powi(x, n) ==
    IF n = 0 THEN 1
    ELSE IF n % 2 = 1 THEN x * powi(x, n - 1)
    ELSE Sq(powi(x, n \div 2))

\* x.powf(num / den) of an integer x >= 0, rounded down to an integer: 0 and 1
\* are fixed by every positive power, above them the largest r with
\* r^den <= x^num
powf(x, num, den) ==
    IF x <= 1 THEN x
    ELSE CHOOSE r \in 1..Sq(x) : powi(r, den) <= powi(x, num) /\ powi(x, num) < powi(r + 1, den)

\* the values the per-skill performance values are drawn from
SkillValues == { 0, 1 }

\* 1.0 - (n_spinners / total_hits).powf(0.85), for no spinner or spinners only
so_penalty(n_spinners, total_hits) ==
    RatSub(Rat(1), Rat(powf(n_spinners \div total_hits, 85, 100)))

\* PpCalculator::calculate: let mut multiplier = 1.12, the NF and the SO factor
PpCalculator_multiplier(a) ==
    RatMul(RatMul(<< 112, 100 >>,
                  IF HasMod(a.mods, NF)
                  THEN RatMax(RatSub(Rat(1), << 2 * a.n_misses, 100 >>), << 9, 10 >>)
                  ELSE Rat(1)),
           IF HasMod(a.mods, SO) THEN so_penalty(a.n_spinners, a.total_hits) ELSE Rat(1))

\* (aim_value.powf(1.1) + speed_value.powf(1.1) + acc_value.powf(1.1))
\*     .powf(1.0 / 1.1) * multiplier
PpCalculator_pp(a) ==
    RatMul(Rat(powf(powf(a.aim_value, 11, 10) + powf(a.speed_value, 11, 10)
                        + powf(a.acc_value, 11, 10), 10, 11)),
           PpCalculator_multiplier(a))

\* Mods::change_speed
change_speed(m) == HasMod(m, HT) \/ HasMod(m, DT)

\* OsuPP::calculate (relax): let mut multiplier = 1.09 and the SO factor
OsuPP_multiplier(a) ==
    RatMul(<< 109, 100 >>,
           IF HasMod(a.mods, SO) THEN so_penalty(a.n_spinners, a.total_hits) ELSE Rat(1))

\* the exponents 1.1 * nodt_bonus and 1.14 * nodt_bonus, nodt_bonus being 1.03
\* without a speed change and 1.0 with one
aim_exponent(m) == IF change_speed(m) THEN << 11, 10 >> ELSE << 1133, 1000 >>
acc_exponent(m) == IF change_speed(m) THEN << 114, 100 >> ELSE << 11742, 10000 >>

\* (aim_value.powf(1.1 * nodt_bonus) + speed_value.powf(0.83)
\*      + acc_value.powf(1.14 * nodt_bonus))
\*      + flashlight_value.powf(1.1).powf(1.0 / 1.1) * multiplier
\* a method call binds tighter than `*`, and `*` tighter than `+`
OsuPP_pp(a) ==
    RatAdd(Rat(powf(a.aim_value, aim_exponent(a.mods)[1], aim_exponent(a.mods)[2])
                 + powf(a.speed_value, 83, 100)
                 + powf(a.acc_value, acc_exponent(a.mods)[1], acc_exponent(a.mods)[2])),
           RatMul(Rat(powf(powf(a.flashlight_value, 11, 10), 10, 11)),
                  OsuPP_multiplier(a)))

\* TaikoPpInner::calculate: let mut multiplier = 1.13, the HD and the EZ factor
TaikoPpInner_multiplier(a) ==
    RatMul(RatMul(<< 113, 100 >>,
                  IF HasMod(a.mods, HD) THEN << 1075, 1000 >> ELSE Rat(1)),
           IF HasMod(a.mods, EZ) THEN << 975, 1000 >> ELSE Rat(1))

\* (diff_value.powf(1.1) + acc_value.powf(1.1)).powf(1.0 / 1.1) * multiplier
TaikoPpInner_pp(a) ==
    RatMul(Rat(powf(powf(a.diff_value, 11, 10) + powf(a.acc_value, 11, 10), 10, 11)),
           TaikoPpInner_multiplier(a))

\* the plays `calculate` is called on: the per-skill values are what the
\* compute_*_value functions returned, relax has a flashlight value under FL only,
\* the map has no spinner or spinners only
PpCalculatorPlays ==
    [ mods : { 0, NF, SO, NF + SO }, n_misses : { 0, 2, 7 }, total_hits : { 8 },
      n_spinners : { 0, 8 }, aim_value : SkillValues, speed_value : SkillValues,
      acc_value : SkillValues ]
OsuPPPlays ==
    { a \in [ mods : { 0, SO, DT, FL, SO + FL, DT + FL, SO + DT, SO + DT + FL },
              total_hits : { 8 }, n_spinners : { 0, 8 }, aim_value : SkillValues,
              speed_value : SkillValues, acc_value : SkillValues,
              flashlight_value : SkillValues ] :
        ~HasMod(a.mods, FL) => a.flashlight_value = 0 }
TaikoPlays ==
    [ mods : { 0, HD, EZ, HD + EZ }, diff_value : SkillValues, acc_value : SkillValues ]

InitAggregate ==
    /\ NoBuilder
    /\ NoPass
    /\ NoPlay
    /\ NoChart
    /\ NoTaiko
    /\ NoSkill
    /\ NoSlider
    /\ \/ f_name = "PpCalculator::calculate" /\ f_args \in PpCalculatorPlays
       \/ f_name = "OsuPP::calculate" /\ f_args \in OsuPPPlays
       \/ f_name = "TaikoPpInner::calculate" /\ f_args \in TaikoPlays
    /\ f_ret = None

PpCalculator_calculate ==
    /\ f_name = "PpCalculator::calculate"
    /\ f_ret = None
    /\ f_ret' = Some(PpCalculator_pp(f_args))
    /\ UNCHANGED << f_name, f_args >>
    /\ UNCHANGED exceptCall

OsuPP_calculate ==
    /\ f_name = "OsuPP::calculate"
    /\ f_ret = None
    /\ f_ret' = Some(OsuPP_pp(f_args))
    /\ UNCHANGED << f_name, f_args >>
    /\ UNCHANGED exceptCall

TaikoPpInner_calculate ==
    /\ f_name = "TaikoPpInner::calculate"
    /\ f_ret = None
    /\ f_ret' = Some(TaikoPpInner_pp(f_args))
    /\ UNCHANGED << f_name, f_args >>
    /\ UNCHANGED exceptCall

NextAggregate ==
    \/ PpCalculator_calculate
    \/ OsuPP_calculate
    \/ TaikoPpInner_calculate

SpecAggregate == InitAggregate /\ [][NextAggregate]_vars

\* the global multiplier of the call and the sum of all its powered skill terms
MultiplierOf ==
    IF f_name = "PpCalculator::calculate" THEN PpCalculator_multiplier(f_args)
    ELSE IF f_name = "OsuPP::calculate" THEN OsuPP_multiplier(f_args)
    ELSE TaikoPpInner_multiplier(f_args)
SkillTerms ==
    IF f_name = "PpCalculator::calculate"
    THEN powf(f_args.aim_value, 11, 10) + powf(f_args.speed_value, 11, 10)
             + powf(f_args.acc_value, 11, 10)
    ELSE IF f_name = "OsuPP::calculate"
    THEN powf(f_args.aim_value, aim_exponent(f_args.mods)[1], aim_exponent(f_args.mods)[2])
             + powf(f_args.speed_value, 83, 100)
             + powf(f_args.acc_value, acc_exponent(f_args.mods)[1],
                    acc_exponent(f_args.mods)[2])
             + powf(f_args.flashlight_value, 11, 10)
    ELSE powf(f_args.diff_value, 11, 10) + powf(f_args.acc_value, 11, 10)

\* C27: the pp `calculate` returns is the global multiplier times the 1/1.1
\* root of the sum of all powered skill terms, in the three calculators, so
\* it is 0 when the multiplier is 0
C27_PpIsMultiplierTimesNorm ==
    f_name \in { "PpCalculator::calculate", "OsuPP::calculate", "TaikoPpInner::calculate" }
        /\ f_ret # None =>
            RatEq(Unwrap(f_ret), RatMul(Rat(powf(SkillTerms, 10, 11)), MultiplierOf))

\* ---------------------------------------------------------------------------
\* The rating composer: DifficultyValues::compute_aim_rating and
\* compute_speed_rating, and the same functions of OsuRatingCalculator
\* ---------------------------------------------------------------------------

\* DIFFICULTY_MULTIPLIER = 0.0675
DIFFICULTY_MULTIPLIER == << 27, 400 >>

\* f64::sqrt of a perfect square, f64::log10 of a power of ten
sqrt(v) == CHOOSE r \in 0..v : r * r = v
log10(q) == CHOOSE k \in 0..q : powi(10, k) = q

\* a rating is returned as `rating * rating_multiplier.cbrt()`: the two factors
Rating(rating, rating_multiplier) ==
    [ rating |-> rating, rating_multiplier |-> rating_multiplier ]

\* GameMods: what ap(), hd(), mg(), attraction_strength() and tc() answer;
\* no touch device, no only_fade_approach_circles setting
GameModsSet ==
    { m \in [ ap : BOOLEAN, hd : BOOLEAN, mg : BOOLEAN, tc : BOOLEAN,
              attraction_strength : { None, Some(<< 1, 2 >>) } ] :
        ~m.mg => m.attraction_strength = None }

\* 0.95 + 0.4 * min(1, total_hits / 2000)
\*      + if total_hits > 2000 { log10(total_hits / 2000) * 0.5 } else { 0.0 }
approach_rate_length_bonus(total_hits) ==
    RatAdd(RatAdd(<< 95, 100 >>,
                  RatMul(<< 4, 10 >>, RatMin(Rat(1), << total_hits, 2000 >>))),
           IF total_hits > 2000
           THEN RatMul(Rat(log10(total_hits \div 2000)), << 1, 2 >>)
           ELSE Rat(0))

\* the ar_factor of the aim rating
aim_ar_factor(approach_rate) ==
    IF RatLt(<< 1033, 100 >>, approach_rate)
    THEN RatMul(<< 3, 10 >>, RatSub(approach_rate, << 1033, 100 >>))
    ELSE IF RatLt(approach_rate, Rat(8))
    THEN RatMul(<< 5, 100 >>, RatSub(Rat(8), approach_rate))
    ELSE Rat(0)

\* the ar_factor of the speed rating: 0.0 under auto-pilot
speed_ar_factor(m, approach_rate) ==
    IF m.ap THEN Rat(0)
    ELSE IF RatLt(<< 1033, 100 >>, approach_rate)
    THEN RatMul(<< 3, 10 >>, RatSub(approach_rate, << 1033, 100 >>))
    ELSE Rat(0)

\* a speed rating that auto-pilot leaves as it is
ap_unscaled(m) == Rat(1)
\* if mods.ap() { speed_rating *= 0.5 }
ap_scale(m) == IF m.ap THEN << 1, 2 >> ELSE Rat(1)

\* if mods.mg() { rating *= 1.0 - attraction_strength().unwrap_or(0.0) * by }
mg_scale(m, by) ==
    IF m.mg THEN RatSub(Rat(1), RatMul(UnwrapOr(m.attraction_strength, Rat(0)), by))
    ELSE Rat(1)

\* c + max(0, overall_difficulty)^2 / d
od_scale(c, overall_difficulty, d) ==
    RatAdd(c, RatDiv(RatMul(RatMax(Rat(0), overall_difficulty),
                            RatMax(Rat(0), overall_difficulty)), Rat(d)))

\* DifficultyValues: rating_multiplier *= 1.0 + 0.04 * (12.0 - approach_rate)
hd_scale(m, approach_rate) ==
    IF m.hd THEN RatAdd(Rat(1), RatMul(<< 4, 100 >>, RatSub(Rat(12), approach_rate)))
    ELSE Rat(1)

DifficultyValues_compute_aim_rating(v, m, total_hits, approach_rate, overall_difficulty) ==
    IF m.ap THEN Rating(Rat(0), Rat(1))
    ELSE Rating(RatMul(RatMul(Rat(sqrt(v)), DIFFICULTY_MULTIPLIER), mg_scale(m, Rat(1))),
                RatMul(RatMul(RatAdd(Rat(1),
                                     RatMul(aim_ar_factor(approach_rate),
                                            approach_rate_length_bonus(total_hits))),
                              hd_scale(m, approach_rate)),
                       od_scale(<< 98, 100 >>, overall_difficulty, 2500)))

DifficultyValues_compute_speed_rating(v, m, total_hits, approach_rate, overall_difficulty) ==
    Rating(RatMul(RatMul(RatMul(Rat(sqrt(v)), DIFFICULTY_MULTIPLIER), ap_scale(m)),
                  mg_scale(m, << 3, 10 >>)),
           RatMul(RatMul(RatAdd(Rat(1),
                                RatMul(speed_ar_factor(m, approach_rate),
                                       approach_rate_length_bonus(total_hits))),
                         hd_scale(m, approach_rate)),
                  od_scale(<< 95, 100 >>, overall_difficulty, 750)))

\* util::difficulty::reverse_lerp and f64::lerp
reverse_lerp(x, start, end) ==
    RatMax(Rat(0), RatMin(RatDiv(RatSub(x, start), RatSub(end, start)), Rat(1)))
lerp(start, end, amount) == RatAdd(start, RatMul(RatSub(end, start), amount))

\* calculate_aim_visibility_factor (from = 9.0) and
\* calculate_speed_visibility_factor (from = 10.0)
visibility_factor(from, mechanical_difficulty_rating, approach_rate) ==
    reverse_lerp(approach_rate, << 115, 10 >>,
                 lerp(from, << 1033, 100 >>,
                      reverse_lerp(mechanical_difficulty_rating, Rat(5), Rat(10))))

\* OsuRatingCalculator::calculate_visibility_bonus for an approach_rate >= 0
\* (it is handed the ar_factor), without only_fade_approach_circles
calculate_visibility_bonus(m, approach_rate, factor, slider_factor) ==
    RatAdd(RatMul(RatMul(IF m.tc THEN << 25, 1000 >> ELSE << 4, 100 >>,
                         RatSub(Rat(12), RatMax(approach_rate, Rat(7)))),
                  factor),
           IF RatLt(approach_rate, Rat(7))
           THEN RatMul(RatMul(IF m.tc THEN << 2, 100 >> ELSE << 45, 1000 >>,
                              RatSub(Rat(7), RatMax(approach_rate, Rat(0)))),
                       RatMul(slider_factor, RatMul(slider_factor, slider_factor)))
           ELSE Rat(0))

\* if self.mods.hd() { rating_multiplier += Self::calculate_visibility_bonus(..) }
hd_bonus(m, ar_factor, factor, slider_factor) ==
    IF m.hd THEN calculate_visibility_bonus(m, ar_factor, factor, slider_factor)
    ELSE Rat(0)

OsuRatingCalculator_compute_aim_rating(self, v) ==
    IF self.mods.ap THEN Rating(Rat(0), Rat(1))
    ELSE Rating(RatMul(RatMul(Rat(sqrt(v)), DIFFICULTY_MULTIPLIER),
                       mg_scale(self.mods, Rat(1))),
                RatMul(RatAdd(RatAdd(Rat(1),
                                     RatMul(aim_ar_factor(self.approach_rate),
                                            approach_rate_length_bonus(self.total_hits))),
                              hd_bonus(self.mods, aim_ar_factor(self.approach_rate),
                                       visibility_factor(Rat(9),
                                                         self.mechanical_difficulty_rating,
                                                         self.approach_rate),
                                       self.slider_factor)),
                       od_scale(<< 98, 100 >>, self.overall_difficulty, 2500)))

OsuRatingCalculator_compute_speed_rating(self, v) ==
    Rating(RatMul(RatMul(RatMul(Rat(sqrt(v)), DIFFICULTY_MULTIPLIER), ap_scale(self.mods)),
                  mg_scale(self.mods, << 3, 10 >>)),
           RatMul(RatAdd(RatAdd(Rat(1),
                                RatMul(speed_ar_factor(self.mods, self.approach_rate),
                                       approach_rate_length_bonus(self.total_hits))),
                         hd_bonus(self.mods, speed_ar_factor(self.mods, self.approach_rate),
                                  visibility_factor(Rat(10),
                                                    self.mechanical_difficulty_rating,
                                                    self.approach_rate),
                                  self.slider_factor)),
                  od_scale(<< 95, 100 >>, self.overall_difficulty, 750)))

\* the aim and the speed rating of one set of inputs
DifficultyValues_ratings(a) ==
    [ aim |-> DifficultyValues_compute_aim_rating(a.aim_difficulty_value, a.mods,
                  a.total_hits, a.approach_rate, a.overall_difficulty),
      speed |-> DifficultyValues_compute_speed_rating(a.speed_difficulty_value, a.mods,
                  a.total_hits, a.approach_rate, a.overall_difficulty) ]
OsuRatingCalculator_ratings(a) ==
    [ aim |-> OsuRatingCalculator_compute_aim_rating(a, a.aim_difficulty_value),
      speed |-> OsuRatingCalculator_compute_speed_rating(a, a.speed_difficulty_value) ]

\* difficulty values that are squares, maps of 500, 2000 and 20000 objects,
\* approach rates below, at and above 10.33
RatingInputs ==
    [ mods : GameModsSet, aim_difficulty_value : { 1, 4 },
      speed_difficulty_value : { 0, 4 }, total_hits : { 500, 2000, 20000 },
      approach_rate : { Rat(5), Rat(9), << 1033, 100 >>, << 1133, 100 >> },
      overall_difficulty : { Rat(-1), Rat(9) },
      mechanical_difficulty_rating : { Rat(5), Rat(10) }, slider_factor : { Rat(1) } ]

InitRating ==
    /\ NoBuilder
    /\ NoPass
    /\ NoPlay
    /\ NoChart
    /\ NoTaiko
    /\ NoSkill
    /\ NoSlider
    /\ f_name \in { "DifficultyValues::eval", "OsuRatingCalculator" }
    /\ f_args \in RatingInputs
    /\ f_ret = None

DifficultyValues_eval ==
    /\ f_name = "DifficultyValues::eval"
    /\ f_ret = None
    /\ f_ret' = Some(DifficultyValues_ratings(f_args))
    /\ UNCHANGED << f_name, f_args >>
    /\ UNCHANGED exceptCall

OsuRatingCalculator_compute ==
    /\ f_name = "OsuRatingCalculator"
    /\ f_ret = None
    /\ f_ret' = Some(OsuRatingCalculator_ratings(f_args))
    /\ UNCHANGED << f_name, f_args >>
    /\ UNCHANGED exceptCall

NextRating ==
    \/ DifficultyValues_eval
    \/ OsuRatingCalculator_compute

SpecRating == InitRating /\ [][NextRating]_vars

\* the value of a rating is 0
IsZero(r) == r.rating[1] = 0 \/ r.rating_multiplier[1] = 0
\* rating a is exactly half of rating b: 8 * a^3 = b^3
Half(a, b) ==
    IF IsZero(b) THEN IsZero(a)
    ELSE RatEq(RatMul(Rat(8),
                      RatMul(RatMul(RatDiv(a.rating, b.rating),
                                    RatMul(RatDiv(a.rating, b.rating),
                                           RatDiv(a.rating, b.rating))),
                             RatDiv(a.rating_multiplier, b.rating_multiplier))),
               Rat(1))
\* the speed rating of the same inputs without auto-pilot
WithoutAp == [ f_args EXCEPT !.mods = [ f_args.mods EXCEPT !.ap = FALSE ] ]
SpeedWithoutAp ==
    IF f_name = "DifficultyValues::eval" THEN DifficultyValues_ratings(WithoutAp).speed
    ELSE OsuRatingCalculator_ratings(WithoutAp).speed
Rated == f_name \in { "DifficultyValues::eval", "OsuRatingCalculator" } /\ f_ret # None

\* C28 as stated: under auto-pilot the aim rating is 0 and the speed rating is
\* exactly half of the speed rating without auto-pilot for the same difficulty
\* value, total hits, approach rate, overall difficulty and other modifiers
C28_AutoPilotHalvesSpeed ==
    Rated /\ f_args.mods.ap =>
        /\ IsZero(Unwrap(f_ret).aim)
        /\ Half(Unwrap(f_ret).speed, SpeedWithoutAp)

\* C28, amended: under auto-pilot the aim rating is 0, and the speed rating is
\* exactly half of the speed rating without auto-pilot when the approach rate
\* is at most 10.33; above 10.33 auto-pilot also drops the high-AR factor, and
\* the speed rating is not half of a non-zero one without auto-pilot
C28_AutoPilotHalvesSpeedUpToAr1033 ==
    Rated /\ f_args.mods.ap =>
        /\ IsZero(Unwrap(f_ret).aim)
        /\ RatLeq(f_args.approach_rate, << 1033, 100 >>) =>
               Half(Unwrap(f_ret).speed, SpeedWithoutAp)
        /\ RatLt(<< 1033, 100 >>, f_args.approach_rate) /\ ~IsZero(SpeedWithoutAp) =>
               ~Half(Unwrap(f_ret).speed, SpeedWithoutAp)

C28_Witness ==
    /\ Rated
    /\ f_args.mods.ap
    /\ f_args.mods.hd
    /\ f_args.approach_rate = Rat(9)
    /\ ~IsZero(Unwrap(f_ret).speed)
    /\ ~IsZero(SpeedWithoutAp)
    /\ IsZero(Unwrap(f_ret).aim)

\* ---------------------------------------------------------------------------
\* better_acc_percentage of compute_accuracy_value
\* ---------------------------------------------------------------------------

\* an f32 is a quotient << n, d >> in lowest terms, or << 1, 0 >> for +inf,
\* << -1, 0 >> for -inf and << 0, 0 >> for NaN
f32_div(n, d) == IF d = 0 THEN << Sgn(n), 0 >> ELSE Reduce(<< n, d >>)
\* f32::max with a finite y: NaN and -inf give y, +inf stays
f32_max(x, y) == IF x[2] = 0 THEN (IF x[1] > 0 THEN x ELSE y) ELSE RatMax(x, y)
\* `b as u8 as f32 * x`: 0.0 * inf and 0.0 * NaN are NaN
bool_times(b, x) == IF b THEN x ELSE IF x[2] = 0 THEN << 0, 0 >> ELSE Rat(0)

\* PpCalculator::compute_accuracy_value, in usize up to the division: what the
\* build holds and whether a build with overflow checks panicked on the way
PpCalculator_better_acc_percentage(a) ==
    [ panicked |->
          a.overflow_checks
              /\ PpCalculator_better_acc_numerator(a.n300, a.n100, a.n50,
                                                   U(a.total_hits), a.n_circles).o,
      value |->
          bool_times(a.n_circles > 0,
                     f32_max(f32_div(PpCalculator_better_acc_numerator(
                                         a.n300, a.n100, a.n50,
                                         U(a.total_hits), a.n_circles).v,
                                     Wrap(a.n_circles * 6)),
                             Rat(0))) ]

\* OsuPP::compute_accuracy_value (osu_2019 and relax), in f32 throughout
OsuPP_better_acc_percentage(a) ==
    [ panicked |-> FALSE,
      value |->
          bool_times(a.n_circles > 0,
                     f32_max(f32_div((a.n300 - (a.total_hits - a.n_circles)) * 6
                                         + a.n100 * 2 + a.n50,
                                     a.n_circles * 6),
                             Rat(0))) ]

\* the hit counts of a play of at most MaxHits objects, n_circles of them
\* circles, on a build with or without overflow checks
HitCounts ==
    { a \in [ n300 : 0..MaxHits, n100 : 0..MaxHits, n50 : 0..MaxHits,
              n_misses : 0..MaxHits, total_hits : 0..MaxHits, n_circles : 0..MaxHits,
              overflow_checks : BOOLEAN ] :
        /\ a.n300 + a.n100 + a.n50 + a.n_misses = a.total_hits
        /\ a.n_circles <= a.total_hits }

InitAccuracy ==
    /\ NoBuilder
    /\ NoPass
    /\ NoPlay
    /\ NoChart
    /\ NoTaiko
    /\ NoSkill
    /\ NoSlider
    /\ f_name \in { "PpCalculator::compute_accuracy_value",
                    "osu_2019::OsuPP::compute_accuracy_value",
                    "relax::OsuPP::compute_accuracy_value" }
    /\ f_args \in HitCounts
    /\ f_name # "PpCalculator::compute_accuracy_value" => ~f_args.overflow_checks
    /\ f_ret = None

PpCalculator_compute_accuracy_value ==
    /\ f_name = "PpCalculator::compute_accuracy_value"
    /\ f_ret = None
    /\ f_ret' = Some(PpCalculator_better_acc_percentage(f_args))
    /\ UNCHANGED << f_name, f_args >>
    /\ UNCHANGED exceptCall

OsuPP_compute_accuracy_value ==
    /\ f_name \in { "osu_2019::OsuPP::compute_accuracy_value",
                    "relax::OsuPP::compute_accuracy_value" }
    /\ f_ret = None
    /\ f_ret' = Some(OsuPP_better_acc_percentage(f_args))
    /\ UNCHANGED << f_name, f_args >>
    /\ UNCHANGED exceptCall

NextAccuracy ==
    \/ PpCalculator_compute_accuracy_value
    \/ OsuPP_compute_accuracy_value

SpecAccuracy == InitAccuracy /\ [][NextAccuracy]_vars

AccuracyComputed ==
    /\ f_name \in { "PpCalculator::compute_accuracy_value",
                    "osu_2019::OsuPP::compute_accuracy_value",
                    "relax::OsuPP::compute_accuracy_value" }
    /\ f_ret # None

\* C29: better_acc_percentage is computed and lies in [0, 1] for all hit
\* counts that add up to total_hits with n_circles <= total_hits; it is 0 when
\* n300 is smaller than the number of non-circle objects, and 0 when
\* n_circles is 0
C29_BetterAccBounded ==
    AccuracyComputed =>
        /\ ~Unwrap(f_ret).panicked
        /\ Unwrap(f_ret).value[2] > 0
        /\ RatLeq(Rat(0), Unwrap(f_ret).value)
        /\ RatLeq(Unwrap(f_ret).value, Rat(1))
        /\ f_args.n300 < f_args.total_hits - f_args.n_circles => Unwrap(f_ret).value[1] = 0
        /\ f_args.n_circles = 0 => Unwrap(f_ret).value[1] = 0

\* ---------------------------------------------------------------------------
\* OsuLegacyScoreMissCalculator
\* ---------------------------------------------------------------------------

\* i32 division, which truncates toward zero
TruncDiv(a, b) == Sgn(a) * (Abs(a) \div b)

\* f64::powf(x, 2.5) of a quotient x >= 0, rounded down to a whole number: the
\* largest r with r^2 <= x^5
powf_2_5(x) ==
    CHOOSE r \in 0..powi(x[1], 3) :
        /\ r * r * powi(x[2], 5) <= powi(x[1], 5)
        /\ powi(x[1], 5) < (r + 1) * (r + 1) * powi(x[2], 5)

\* GameMods as legacy bits
get_legacy_score_multiplier(m) ==
    IF HasMod(m, RX) \/ HasMod(m, AP) THEN Rat(0)
    ELSE RatMul(RatMul(RatMul(RatMul(IF HasMod(m, NF)
                                     THEN (IF HasMod(m, SV2) THEN Rat(1) ELSE << 1, 2 >>)
                                     ELSE Rat(1),
                                     IF HasMod(m, EZ) THEN << 1, 2 >> ELSE Rat(1)),
                              RatMul(IF HasMod(m, HT) THEN << 3, 10 >> ELSE Rat(1),
                                     IF HasMod(m, HD) THEN << 106, 100 >> ELSE Rat(1))),
                       RatMul(IF HasMod(m, HR)
                              THEN (IF HasMod(m, SV2) THEN << 110, 100 >> ELSE << 106, 100 >>)
                              ELSE Rat(1),
                              IF HasMod(m, DT)
                              THEN (IF HasMod(m, SV2) THEN << 120, 100 >> ELSE << 112, 100 >>)
                              ELSE Rat(1))),
                RatMul(IF HasMod(m, FL) THEN << 112, 100 >> ELSE Rat(1),
                       IF HasMod(m, SO) THEN << 9, 10 >> ELSE Rat(1)))

\* OsuScoreState::total_hits
OsuScoreState_total_hits(state) == state.n300 + state.n100 + state.n50 + state.misses

\* the width the model gives a u32
U32Bits == 8
U32Modulus == powi(2, U32Bits)

\* let result = (self.attrs.max_combo - 2) * self.attrs.max_combo, in u32: the
\* value a build without overflow checks holds and whether an operation overflowed
combo_product(max_combo) ==
    [ v |-> (((max_combo - 2) % U32Modulus) * max_combo) % U32Modulus,
      o |-> max_combo < 2 \/ (max_combo - 2) * max_combo >= U32Modulus ]

\* combo_score /= 300.0 / 25.0 * self.attrs.legacy_score_base_multiplier
raw_combo_score(attrs) ==
    RatDiv(attrs.maximum_legacy_combo_score,
           RatMul(Rat(12), attrs.legacy_score_base_multiplier))

calculate_relevant_score_combo_per_object(self) ==
    RatDiv(Rat(combo_product(self.attrs.max_combo).v),
           RatMax(RatAdd(Rat(self.attrs.max_combo),
                         RatMul(Rat(2), RatSub(raw_combo_score(self.attrs), Rat(1)))),
                  Rat(1)))

\* combo / relevant_combo_per_object - 1.0, read only where the latter is > 0
estimated_objects(combo, relevant_combo_per_object) ==
    RatSub(RatDiv(combo, relevant_combo_per_object), Rat(1))

combo_score(combo, relevant_combo_per_object) ==
    IF RatLt(Rat(0), relevant_combo_per_object)
    THEN RatDiv(RatMul(RatAdd(RatMul(Rat(2), RatSub(relevant_combo_per_object, Rat(1))),
                              RatMul(RatSub(estimated_objects(combo,
                                                              relevant_combo_per_object),
                                            Rat(1)),
                                     relevant_combo_per_object)),
                       estimated_objects(combo, relevant_combo_per_object)),
                Rat(2))
    ELSE Rat(0)

non_combo_score(self, combo) ==
    RatMul(RatMul(RatAdd(Rat(300), self.attrs.nested_score_per_object), self.accuracy),
           RatDiv(RatMul(Rat(OsuScoreState_total_hits(self.state) - self.state.misses),
                         combo),
                  Rat(self.attrs.max_combo)))

calculate_score_at_combo(self, combo, relevant_combo_per_object, score_v1_multiplier) ==
    RatAdd(RatMul(RatMul(RatMul(combo_score(combo, relevant_combo_per_object),
                                self.accuracy),
                         Rat(12)),
                  score_v1_multiplier),
           non_combo_score(self, combo))

full_combo_threshold(attrs) == RatSub(Rat(attrs.max_combo), << attrs.n_sliders, 10 >>)
total_imperfect_hits(state) == state.n100 + state.n50 + state.misses
max_possible_slider_breaks(self) ==
    Min(self.attrs.n_sliders, TruncDiv(self.attrs.max_combo - self.state.max_combo, 2))

\* miss_count after the first `min(total_imperfect_hits)`
combo_miss_count(self) ==
    RatMin(IF RatLt(Rat(self.state.max_combo), full_combo_threshold(self.attrs))
           THEN Rat(powf_2_5(RatDiv(full_combo_threshold(self.attrs),
                                    Rat(Max(1, self.state.max_combo)))))
           ELSE Rat(0),
           Rat(total_imperfect_hits(self.state)))

calculate_maximum_combo_based_miss_count(self) ==
    IF self.attrs.n_sliders = 0 THEN Rat(self.state.misses)
    ELSE RatMin(IF RatLt(Rat(max_possible_slider_breaks(self)),
                         RatSub(combo_miss_count(self), Rat(self.state.misses)))
                THEN Rat(self.state.misses + max_possible_slider_breaks(self))
                ELSE combo_miss_count(self),
                Rat(total_imperfect_hits(self.state)))

score_v1_multiplier(self) ==
    RatMul(self.attrs.legacy_score_base_multiplier, get_legacy_score_multiplier(self.mods))

\* legacy_total_score - score_obtained_during_max_combo
remaining_score(self) ==
    RatSub(Rat(Unwrap(self.legacy_total_score)),
           calculate_score_at_combo(self, Rat(self.state.max_combo),
                                    calculate_relevant_score_combo_per_object(self),
                                    score_v1_multiplier(self)))

\* expected_remaining_score / remaining_score, then max(1.0), then
\* min(maximum_miss_count)
score_based_miss_count(self) ==
    RatMin(RatMax(RatDiv(calculate_score_at_combo(
                             self, Rat(self.attrs.max_combo - self.state.max_combo),
                             calculate_relevant_score_combo_per_object(self),
                             score_v1_multiplier(self)),
                         remaining_score(self)),
                  Rat(1)),
           calculate_maximum_combo_based_miss_count(self))

\* OsuLegacyScoreMissCalculator::calculate: what it returns on a build without
\* overflow checks, and whether a build with them panicked
OsuLegacyScoreMissCalculator_calculate(self) ==
    IF self.attrs.max_combo = 0 \/ self.legacy_total_score = None
    THEN [ panicked |-> FALSE, value |-> Rat(0) ]
    ELSE [ panicked |-> self.overflow_checks /\ combo_product(self.attrs.max_combo).o,
           value |-> IF RatLeq(remaining_score(self), Rat(0))
                     THEN calculate_maximum_combo_based_miss_count(self)
                     ELSE score_based_miss_count(self) ]

\* maps of up to MaxCombo combo, scores whose combo is at most the map's
LegacyAttrs ==
    [ max_combo : 0..MaxCombo, n_sliders : { 0, 1 },
      legacy_score_base_multiplier : { Rat(4) },
      maximum_legacy_combo_score : { Rat(0), Rat(240) },
      nested_score_per_object : { Rat(10) } ]
LegacyStates ==
    [ max_combo : 0..MaxCombo, n300 : { 0, 2 }, n100 : 0..1, n50 : { 0 }, misses : 0..1 ]
LegacyCalls ==
    { c \in [ attrs : LegacyAttrs, state : LegacyStates, mods : { 0, RX, NF + HT },
              legacy_total_score : { None, Some(0), Some(300), Some(5000) },
              accuracy : { << 1, 2 >>, Rat(1) }, overflow_checks : BOOLEAN ] :
        c.state.max_combo <= c.attrs.max_combo }

InitLegacy ==
    /\ NoBuilder
    /\ NoPass
    /\ NoPlay
    /\ NoChart
    /\ NoTaiko
    /\ NoSkill
    /\ NoSlider
    /\ f_name = "OsuLegacyScoreMissCalculator::calculate"
    /\ f_args \in LegacyCalls
    /\ f_ret = None

LegacyCalculate ==
    /\ f_name = "OsuLegacyScoreMissCalculator::calculate"
    /\ f_ret = None
    /\ f_ret' = Some(OsuLegacyScoreMissCalculator_calculate(f_args))
    /\ UNCHANGED << f_name, f_args >>
    /\ UNCHANGED exceptCall

NextLegacy == LegacyCalculate

SpecLegacy == InitLegacy /\ [][NextLegacy]_vars

LegacyCalculated == f_name = "OsuLegacyScoreMissCalculator::calculate" /\ f_ret # None

\* C30: the legacy miss estimate is 0 when max_combo is 0 or no legacy total
\* score is given, and for every max_combo >= 1 and every score state it
\* completes, with no integer underflow or overflow in
\* (max_combo - 2) * max_combo, and a result in [0, n100 + n50 + misses]
C30_LegacyMissCountBounded ==
    LegacyCalculated =>
        /\ f_args.attrs.max_combo = 0 \/ f_args.legacy_total_score = None =>
               Unwrap(f_ret).value = Rat(0)
        /\ f_args.attrs.max_combo >= 1 /\ f_args.legacy_total_score # None =>
               /\ ~combo_product(f_args.attrs.max_combo).o
               /\ ~Unwrap(f_ret).panicked
               /\ RatLeq(Rat(0), Unwrap(f_ret).value)
               /\ RatLeq(Unwrap(f_ret).value, Rat(total_imperfect_hits(f_args.state)))

\* ---------------------------------------------------------------------------
\* The documented builder sequence of OsuPP (osu_2019/pp.rs, doc example)
\* ---------------------------------------------------------------------------

\* the builder went through OsuPP::new(map).mods(HD + DT) .. accuracy(a) and
\* calculate() was called, with attributes, passed_objects, the explicit hit
\* counts and hdr never set (combo only feeds the effective miss count and
\* is not a field of the model)
DocumentedSequence ==
    /\ calc = "OsuPP2019"
    /\ last_op = "calculate"
    /\ mods = HD + DT
    /\ acc_call # None
    /\ hdr = None
    /\ passed_objects = None
    /\ explicit = NoExplicit

\* C16: the documented sequence new(map), mods(HD + DT), misses(m),
\* accuracy(a), calculate() with every other optional field unset returns a
\* performance result rather than failing
C16_DocumentedSequenceCompletes ==
    DocumentedSequence => status = "done" /\ result # None

\* ------------------------------------------------------------------------
\* Hit-count reconstruction: properties
\* ------------------------------------------------------------------------
Call == Unwrap(acc_call)
Points == 6 * Unwrap(n300) + 2 * Unwrap(n100) + Unwrap(n50)

\* the state right after accuracy(acc) on a builder with no hit count set,
\* total_objects >= 1 and misses <= total_objects
AccuracyOnly ==
    /\ last_op = "accuracy"
    /\ before.n300 = None /\ before.n100 = None /\ before.n50 = None
    /\ NObjects >= 1
    /\ n_misses <= NObjects

\* C1: after accuracy(acc) with no hit counts pre-supplied, total_objects >= 1
\* and misses <= total_objects, the call has completed and
\* n300 + n100 + n50 + misses = total_objects.
C1_CountsSumToTotal ==
    AccuracyOnly =>
        /\ status # "panic"
        /\ Unwrap(n300) + Unwrap(n100) + Unwrap(n50) + n_misses = NObjects

\* the target point total round(acc / 100 * total_objects * 6), acc = 100 j / AccDen:
\* the integer within one half of 6 n j / AccDen, halves rounded up
ClaimTarget(j, n) ==
    CHOOSE t \in 0..(6 * n) :
        /\ 2 * (t * AccDen - 6 * n * j) <= AccDen
        /\ 2 * (6 * n * j - t * AccDen) < AccDen
ClaimDelta(j, n, m) == ClaimTarget(j, n) - (n - m)
\* some (n300, n100, n50) >= 0 with n300 + n100 + n50 + m = n reaches the target
\* point total by the delta rule
Attainable(j, n, m) ==
    /\ ClaimDelta(j, n, m) >= 0
    /\ (ClaimDelta(j, n, m) \div 5) + (ClaimDelta(j, n, m) % 5) <= n - m
AttainableCall == AccuracyOnly /\ Attainable(Call.j, NObjects, n_misses)

\* C2 as stated, on the targets that are attainable: the reconstructed counts give
\* (6 n300 + 2 n100 + n50) / (6 total_objects) within 0.01 of acc / 100.
C2_WithinOneHundredth ==
    AttainableCall =>
        /\ status # "panic"
        /\ 100 * Abs(Points * AccDen - 6 * NObjects * Call.j) <= 6 * NObjects * AccDen

\* C2 (amended): for every total_objects >= 1, accuracy in [0,100] and
\* misses <= total_objects whose target point total is attainable, accuracy(acc)
\* completes and 6 n300 + 2 n100 + n50 is the target point total
\* round(acc / 100 * 6 total_objects), so the accuracy of the counts is within
\* 1 / (12 total_objects) of acc / 100.
C2_PointsAreTargetTotal ==
    AttainableCall =>
        /\ status # "panic"
        /\ Points = ClaimTarget(Call.j, NObjects)
        /\ 2 * Abs(Points * AccDen - 6 * NObjects * Call.j) <= AccDen

\* an attainable target that is no multiple of 1 / (6 total_objects), with misses
C2_Witness ==
    /\ AttainableCall
    /\ status = "building"
    /\ n_misses > 0
    /\ Points * AccDen # 6 * NObjects * Call.j

\* C3 as stated: with no counts pre-supplied the reconstruction returns exactly
\* n300 = delta div 5, n100 = delta mod 5, n50 = total_objects - n300 - n100 - misses.
C3_NoRedistribution ==
    AttainableCall =>
        /\ status # "panic"
        /\ Unwrap(n300) = ClaimDelta(Call.j, NObjects, n_misses) \div 5
        /\ Unwrap(n100) = ClaimDelta(Call.j, NObjects, n_misses) % 5
        /\ Unwrap(n50) = NObjects - Unwrap(n300) - Unwrap(n100) - n_misses

\* the number of n300 the builder then trades, each with four n50, for five n100:
\* none in PpCalculator, min(n300, n50 div 4) in OsuPP (osu_2019 and relax)
ClaimSacrificed(d, n, m) ==
    IF calc = "PpCalculator" THEN 0
    ELSE IF d \div 5 <= (n - m - (d \div 5) - (d % 5)) \div 4
    THEN d \div 5
    ELSE (n - m - (d \div 5) - (d % 5)) \div 4
\* the triple a reconstruction from (acc = 100 j / AccDen, m misses, n objects) gives
ClaimTriple(j, n, m) ==
    [ n300 |-> (ClaimDelta(j, n, m) \div 5) - ClaimSacrificed(ClaimDelta(j, n, m), n, m),
      n100 |-> (ClaimDelta(j, n, m) % 5) + 5 * ClaimSacrificed(ClaimDelta(j, n, m), n, m),
      n50 |-> n - m - (ClaimDelta(j, n, m) \div 5) - (ClaimDelta(j, n, m) % 5)
              - 4 * ClaimSacrificed(ClaimDelta(j, n, m), n, m) ]
Triple == [ n300 |-> Unwrap(n300), n100 |-> Unwrap(n100), n50 |-> Unwrap(n50) ]

\* C3 (amended): with no counts pre-supplied and an attainable target,
\* PpCalculator::accuracy returns n300 = delta div 5, n100 = delta mod 5,
\* n50 = total_objects - n300 - n100 - misses; OsuPP::accuracy (osu_2019, relax)
\* then moves k = min(n300, n50 div 4) n300 and 4 k n50 into 5 k n100.
C3_DeltaRuleThenSacrifice ==
    AttainableCall =>
        /\ status # "panic"
        /\ Triple = ClaimTriple(Call.j, NObjects, n_misses)

\* OsuPP has sacrificed at least one n300
C3_Witness ==
    /\ AttainableCall
    /\ IsOsuPP
    /\ status = "building"
    /\ Unwrap(n100) >= 5
    /\ Unwrap(n300) >= 1

\* the state right after accuracy(..) or calculate()
Reconstructed == last_op \in { "accuracy", "calculate" } /\ status # "panic"
\* tier t held, when that call began, the value the caller had supplied for it
Held300 == before.explicit.n300 # None /\ before.n300 = before.explicit.n300
Held100 == before.explicit.n100 # None /\ before.n100 = before.explicit.n100
Held50 == before.explicit.n50 # None /\ before.n50 = before.explicit.n50
\* total_objects minus the counts held before the call and the misses, at least 0
ClaimRemainder ==
    IF UnwrapOr(before.n300, 0) + UnwrapOr(before.n100, 0) + UnwrapOr(before.n50, 0)
           + n_misses >= NObjects
    THEN 0
    ELSE NObjects - UnwrapOr(before.n300, 0) - UnwrapOr(before.n100, 0)
             - UnwrapOr(before.n50, 0) - n_misses

Finalised ==
    /\ last_op = "calculate"
    /\ before.acc = None
    /\ NObjects >= 1
    /\ UnwrapOr(before.n300, 0) + UnwrapOr(before.n100, 0) + UnwrapOr(before.n50, 0)
           + n_misses <= NObjects

\* C5: finalisation gives the whole remainder to the first unset tier in the order
\* n300, n100, n50 (adds it to n300 when all three were supplied), sets every
\* other unset tier to 0, and the four counts then sum to total_objects.
C5_RemainderToFirstUnset ==
    Finalised =>
        /\ panic_at # "hitresults"
        /\ n300 = Some(IF before.n300 = None THEN ClaimRemainder
                       ELSE IF before.n100 # None /\ before.n50 # None
                       THEN Unwrap(before.n300) + ClaimRemainder
                       ELSE Unwrap(before.n300))
        /\ n100 = Some(IF before.n100 # None THEN Unwrap(before.n100)
                       ELSE IF before.n300 # None THEN ClaimRemainder ELSE 0)
        /\ n50 = Some(IF before.n50 # None THEN Unwrap(before.n50)
                      ELSE IF before.n300 # None /\ before.n100 # None
                      THEN ClaimRemainder ELSE 0)
        /\ Unwrap(n300) + Unwrap(n100) + Unwrap(n50) + n_misses = NObjects

\* the state right after accuracy(..) on a builder holding a supplied n50 only,
\* n50 + misses <= total_objects
OnlyN50 ==
    /\ last_op = "accuracy"
    /\ before.n300 = None /\ before.n100 = None /\ before.n50 # None
    /\ Unwrap(before.n50) + n_misses <= NObjects

\* C6 as stated: the n50 stored after reconstruction differs from the supplied n50
\* by at most 4.
C6_N50WithinFour ==
    OnlyN50 /\ n_misses = 0 =>
        /\ status # "panic"
        /\ Abs(Unwrap(n50) - Unwrap(before.n50)) <= 4

\* C6 (amended): when only n50 is pre-supplied (n50 + misses <= total_objects) and
\* an accuracy is then set, the call completes, PpCalculator stores the supplied
\* n50, and OsuPP stores an n50 that is never below the supplied one, exceeds it by
\* at most total_objects - n50 - misses, and by at most 3 whenever the stored n300
\* is above 0.
C6_N50ExcessBounded ==
    OnlyN50 =>
        /\ status # "panic"
        /\ Unwrap(n50) >= Unwrap(before.n50)
        /\ Unwrap(n50) - Unwrap(before.n50) <= NObjects - Unwrap(before.n50) - n_misses
        /\ calc = "PpCalculator" => n50 = before.n50
        /\ Unwrap(n300) > 0 => Unwrap(n50) - Unwrap(before.n50) <= 3

\* OsuPP has moved n50 it had added back onto n100 and kept an n300
C6_Witness ==
    /\ OnlyN50
    /\ IsOsuPP
    /\ status = "building"
    /\ Unwrap(n100) >= 5
    /\ Unwrap(n300) >= 1

\* calculate() has returned on a builder whose counts come from one accuracy(..)
\* call and from no n300(..), n100(..), n50(..)
FromAccuracyOnly ==
    /\ status = "done"
    /\ explicit = NoExplicit
    /\ acc_call # None
    /\ Call.n300 = None

\* C7 as stated: the triple calculate uses is the one reconstruction gives for the
\* builder's accuracy, misses and total_objects, whatever order misses(..) and
\* accuracy(..) were called in.
C7_OrderIndependent ==
    /\ FromAccuracyOnly
    /\ ~wrapped
    /\ NObjects >= 1
    /\ n_misses <= NObjects
    /\ Attainable(Call.j, NObjects, n_misses)
    => Triple = ClaimTriple(Call.j, NObjects, n_misses)

\* C7 (amended): for builders with no explicit hit counts the triple calculate uses
\* is a function of the accuracy and of the misses and total_objects the builder
\* held when accuracy(..) was called: setters called after accuracy(..) do not
\* enter it.
C7_FunctionOfInputsAtCall ==
    /\ FromAccuracyOnly
    /\ Call.n_objects >= 1
    /\ Call.n_misses <= Call.n_objects
    /\ Attainable(Call.j, Call.n_objects, Call.n_misses)
    => Triple = ClaimTriple(Call.j, Call.n_objects, Call.n_misses)

\* misses(..) was called after accuracy(..)
C7_Witness ==
    /\ FromAccuracyOnly
    /\ Attainable(Call.j, Call.n_objects, Call.n_misses)
    /\ Call.n_objects >= 1
    /\ n_misses # Call.n_misses
    /\ Unwrap(n100) > 0

\* C8: when attributes were supplied, calculate does not run the difficulty pass
\* and the attributes in the returned result equal the supplied ones.
C8_AttributesReused ==
    last_op = "calculate" /\ before.attributes # None =>
        /\ stars_calls = 0
        /\ attributes = before.attributes
        /\ status = "done" => Unwrap(result).difficulty = Unwrap(before.attributes)

\* calculate() has returned on a builder with supplied attributes and mods
C8_Witness ==
    /\ last_op = "calculate"
    /\ before.attributes # None
    /\ status = "done"
    /\ mods # 0

\* C10: calculate on a chart with zero objects, no accuracy and no hit counts
\* supplied, completes and returns a result whose values are zero (so not NaN).
C10_ZeroObjectsZeroResult ==
    /\ last_op = "calculate"
    /\ map_len = 0 /\ NObjects = 0
    /\ before.acc = None
    /\ before.n300 = None /\ before.n100 = None /\ before.n50 = None
    /\ calc = "OsuPP2019" => hdr # None
    => /\ status = "done"
       /\ ~Unwrap(result).pp_is_nan

====
